---- MODULE Spec2Model ----
(***************************************************************************)
(* Model of the delta map-search server: the bounding-box arithmetic, the  *)
(* Overpass fetcher with endpoint failover, the element normalizer, the    *)
(* feature metrics and the intent router of server/app/routes/search.py.   *)
(*                                                                         *)
(* Numbers.  Python floats are modelled as binary floating point numbers   *)
(* with a MantBits-bit significand and round-to-nearest-even, held as      *)
(* integers that count a fixed smallest step.  Degrees are counted in      *)
(* steps of 0.0001 degree, kilometres in steps of 0.0001 km, metres in     *)
(* steps of 0.0001 m.  An integer below 2^MantBits is exact.               *)
(***************************************************************************)
EXTENDS Integers, Sequences, FiniteSets, TLC

\* ------------------------------------------------------------------ bounds
\* Significand width of the modelled floats (53 for a Python float).
MantBits == 13

\* Longest vertex list of a way that is normalized.
MaxVertices == 4

\* Most members of a relation that is normalized.
MaxMembers == 2

\* Longest query that the fallback parser is given, in fragments.
MaxFragments == 4

\* Most jobs that are started, of the three kinds together.
MaxJobs == 2

\* Longest text of a height tag whose estimate is computed.
MaxTagLen == 4

\* Longest list of features that is ranked.
MaxRanked == 3

\* ------------------------------------------------------ float arithmetic
Abs(x) == IF x < 0 THEN -x ELSE x

Sign(x) == IF x < 0 THEN -1 ELSE 1

Max(a, b) == IF a >= b THEN a ELSE b

RECURSIVE Pow2(_)
Pow2(n) == IF n <= 0 THEN 1 ELSE 2 * Pow2(n - 1)

RECURSIVE BitLen(_)
BitLen(n) == IF n <= 0 THEN 0 ELSE 1 + BitLen(n \div 2)

\* Every whole number below Exact in magnitude is representable.
Exact == Pow2(MantBits)

\* Spacing of the representable numbers around the magnitude of x.
Ulp(x) == IF Abs(x) < Exact THEN 1 ELSE Pow2(BitLen(Abs(x)) - MantBits)

\* The representable number nearest to the rational num/den (den > 0),
\* ties to the even significand.
RoundRat(num, den) ==
    LET a     == Abs(num)
        f     == a \div den
        q     == Ulp(f)
        lower == f - (f % q)
        twice == 2 * (a - lower * den)
        up    == \/ twice > q * den
                 \/ twice = q * den /\ ((lower \div q) % 2 = 1)
    IN  Sign(num) * (IF up THEN lower + q ELSE lower)

Round(x) == IF Abs(x) < Exact THEN x ELSE RoundRat(x, 1)

FAdd(a, b) == Round(a + b)

FSub(a, b) == Round(a - b)

FDiv(a, b) == IF b < 0 THEN RoundRat(-a, -b) ELSE RoundRat(a, b)

FMul(a, b) == Round(a * b)

\* ------------------------------------------------------------- optionals
\* Python None is the empty tuple, a present value x is <<x>>.
None == <<>>

Some(x) == <<x>>

IsNone(o) == Len(o) = 0

IsSome(o) == Len(o) = 1

Get(o) == o[1]

\* ------------------------------------------------------------------ state
VARIABLES
    call,          \* harness of the pure functions: the call being evaluated
    result,        \* harness of the pure functions: None, or Some(returned value)
    pc,            \* agentic_search: where the handler stands
    request,       \* agentic_search: the SearchRequest
    intent,        \* agentic_search: None, or Some(intent) once parsed
    geocode_calls, \* the calls of GeocodingService.geocode, in order
    landmark,      \* find_building: result of the landmark probe
    location,      \* result of the geocode of the location
    fetch,         \* fetch_buildings_in_bbox: None, or Some(its locals)
    buildings,     \* the list fetch_buildings_in_bbox returned
    response,      \* None, or Some(the dict agentic_search returned)
    raised,        \* the exception that left agentic_search, "none" if none
    jobs,          \* generation.py: the pipeline jobs, in insertion order
    three_d_jobs,  \* generation.py: the 3D jobs, in insertion order
    image_jobs,    \* generation.py: the image jobs, in insertion order
    tasks,         \* the background tasks and generate_preview calls in flight
    answered,      \* what the job endpoints have answered so far
    reply          \* the last answer of a job endpoint

harnessVars == <<call, result>>

routerVars ==
    <<pc, request, intent, geocode_calls, landmark, location, fetch, buildings,
      response, raised>>

jobVars == <<jobs, three_d_jobs, image_jobs, tasks, answered, reply>>

vars == <<call, result, pc, request, intent, geocode_calls, landmark, location,
          fetch, buildings, response, raised, jobs, three_d_jobs, image_jobs, tasks,
          answered, reply>>

\* No job was ever started (the specifications of the search routes).
JobsIdle ==
    /\ jobs = <<>>
    /\ three_d_jobs = <<>>
    /\ image_jobs = <<>>
    /\ tasks = <<>>
    /\ answered = {}
    /\ reply = [endpoint |-> "none"]

\* No request is being handled (the specifications of the pure functions).
RouterIdle ==
    /\ pc = "idle"
    /\ request = None
    /\ intent = None
    /\ geocode_calls = <<>>
    /\ landmark = None
    /\ location = None
    /\ fetch = None
    /\ buildings = <<>>
    /\ response = None
    /\ raised = "none"

\* No pure function is being evaluated (the specification of the router).
HarnessIdle ==
    /\ call = [fn |-> "none"]
    /\ result = None

\* ------------------------------------------------- Bounding-Box Calculator
\* math.cos(math.radians(lat)), in thousandths, tabulated at 0, 45, 60 and
\* 89 degrees; a latitude takes the entry of the band it falls in.
CosMilli(lat) ==
    LET d == Abs(lat) \div 10000
    IN  IF d < 23 THEN 1000 ELSE IF d < 53 THEN 707 ELSE IF d < 75 THEN 500 ELSE 17

\* lat_offset = radius_km / 111.0
LatOffset(radius_km) == FDiv(radius_km, 111)

\* lng_offset = radius_km / (111.0 * math.cos(math.radians(center[1])))
LngOffset(center, radius_km) ==
    FDiv(radius_km * 1000, FMul(111, CosMilli(center[2])))

\* A slip that swaps the two latitude edges.
expand_bbox_from_center_swapped(center, radius_km) ==
    [south |-> FAdd(center[2], LatOffset(radius_km)),
     north |-> FSub(center[2], LatOffset(radius_km)),
     west  |-> FSub(center[1], LngOffset(center, radius_km)),
     east  |-> FAdd(center[1], LngOffset(center, radius_km))]

\* search.py expand_bbox_from_center: center is <<lon, lat>>.
expand_bbox_from_center(center, radius_km) ==
    [south |-> FSub(center[2], LatOffset(radius_km)),
     north |-> FAdd(center[2], LatOffset(radius_km)),
     west  |-> FSub(center[1], LngOffset(center, radius_km)),
     east  |-> FAdd(center[1], LngOffset(center, radius_km))]

\* max_bbox_size = 0.01 degree.
max_bbox_size == 100

\* A slip that recentres a box of twice the cap (half_size not halved).
ClampBBox_wide(bbox) ==
    LET lat_diff == FSub(bbox.north, bbox.south)
        lng_diff == FSub(bbox.east, bbox.west)
    IN  IF lat_diff > max_bbox_size \/ lng_diff > max_bbox_size
        THEN LET lat_center == FDiv(FAdd(bbox.south, bbox.north), 2)
                 lng_center == FDiv(FAdd(bbox.west, bbox.east), 2)
             IN  [south |-> FSub(lat_center, max_bbox_size),
                  north |-> FAdd(lat_center, max_bbox_size),
                  west  |-> FSub(lng_center, max_bbox_size),
                  east  |-> FAdd(lng_center, max_bbox_size)]
        ELSE bbox

\* The clamp at the head of fetch_buildings_in_bbox.
ClampBBox(bbox) ==
    LET lat_diff == FSub(bbox.north, bbox.south)
        lng_diff == FSub(bbox.east, bbox.west)
    IN  IF lat_diff > max_bbox_size \/ lng_diff > max_bbox_size
        THEN LET lat_center == FDiv(FAdd(bbox.south, bbox.north), 2)
                 lng_center == FDiv(FAdd(bbox.west, bbox.east), 2)
                 half_size  == FDiv(max_bbox_size, 2)
             IN  [south |-> FSub(lat_center, half_size),
                  north |-> FAdd(lat_center, half_size),
                  west  |-> FSub(lng_center, half_size),
                  east  |-> FAdd(lng_center, half_size)]
        ELSE bbox

\* ------------------------------------------------------- Python strings
\* A tag value that the code parses is a sequence of one-character strings.
Chars == {"0", "1", "3", "-", "m", "f", "t", "F", " ", "n", "a"}

Digits == {"0", "1", "3"}

DigitValue(c) == IF c = "0" THEN 0 ELSE IF c = "1" THEN 1 ELSE 3

\* s[from..] as a sequence
Drop(s, n) == SubSeq(s, n + 1, Len(s))

StartsWith(s, pat) ==
    /\ Len(pat) <= Len(s)
    /\ SubSeq(s, 1, Len(pat)) = pat

\* pat in s
Contains(s, pat) == \E i \in 0..(Len(s) - Len(pat)) : StartsWith(Drop(s, i), pat)

\* s.replace(pat, ""), pat not empty: occurrences are removed left to right.
RECURSIVE Remove(_, _)
Remove(s, pat) ==
    IF s = <<>> THEN <<>>
    ELSE IF StartsWith(s, pat) THEN Remove(Drop(s, Len(pat)), pat)
    ELSE <<Head(s)>> \o Remove(Tail(s), pat)

\* s.strip()
RECURSIVE LStrip(_)
LStrip(s) == IF s # <<>> /\ Head(s) = " " THEN LStrip(Tail(s)) ELSE s

RECURSIVE RStrip(_)
RStrip(s) ==
    IF s # <<>> /\ s[Len(s)] = " " THEN RStrip(SubSeq(s, 1, Len(s) - 1)) ELSE s

Strip(s) == RStrip(LStrip(s))

\* s.lower()
LowerChar(c) ==
    IF c = "F" THEN "f" ELSE IF c = "T" THEN "t" ELSE IF c = "C" THEN "c"
    ELSE IF c = "N" THEN "n" ELSE IF c = "P" THEN "p" ELSE c

RECURSIVE Lower(_)
Lower(s) == IF s = <<>> THEN <<>> ELSE <<LowerChar(Head(s))>> \o Lower(Tail(s))

\* float(s) accepts, over Chars, an optional sign and one or more digits,
\* or the text nan in either case, with blanks around them; anything else
\* is a ValueError.
IsDigits(s) == s # <<>> /\ \A i \in 1..Len(s) : s[i] \in Digits

IsNaNText(s) == Lower(Strip(s)) = <<"n", "a", "n">>

FloatParses(s) ==
    LET u == Strip(s)
    IN  \/ IsDigits(u)
        \/ u # <<>> /\ Head(u) = "-" /\ IsDigits(Tail(u))
        \/ IsNaNText(u)

RECURSIVE DigitsValue(_)
DigitsValue(s) ==
    IF s = <<>> THEN 0 ELSE 10 * DigitsValue(SubSeq(s, 1, Len(s) - 1)) + DigitValue(s[Len(s)])

\* float("nan"): a value below every height or area of the model stands
\* for it; no comparison with it is true, and arithmetic on it gives it.
NaN == -Pow2(30)

\* x * k on floats, k a whole number
Times(x, k) == IF x = NaN THEN NaN ELSE x * k

\* The value of float(s), as a whole number.
FloatValue(s) ==
    LET u == Strip(s)
    IN  IF IsNaNText(u) THEN NaN
        ELSE IF Head(u) = "-" THEN -DigitsValue(Tail(u)) ELSE DigitsValue(u)

\* --------------------------------------------------------- Feature Metrics
\* dict.get and "key in dict" on a tag map (a function on its keys).
Has(d, k) == k \in DOMAIN d

\* One metre in steps of a height: the step is 0.0001 m, the finest that
\* holds the feet factor 0.3048 as a whole number.
Metre == 10000

\* area_sum after the first i rounds of the shoelace loop: each round adds
\* the product x[i] * y[j] and then takes x[j] * y[i] away, j = (i + 1) % n,
\* every operation rounded as a float operation is.
RECURSIVE ShoelaceSum(_, _)
ShoelaceSum(ring, i) ==
    IF i = 0 THEN 0
    ELSE LET j == (i % Len(ring)) + 1
         IN  FSub(FAdd(ShoelaceSum(ring, i - 1), FMul(ring[i][1], ring[j][2])),
                  FMul(ring[j][1], ring[i][2]))

\* Variant of the loop that stops at the last vertex and never wraps around
\* to the first.
FeatureArea_no_wrap(feature) ==
    IF Has(feature, "geometry")
    THEN LET coords == feature.geometry.coordinates
         IN  IF Len(coords) > 0 /\ Len(coords[1]) > 0 /\ Len(coords[1]) > 2
             THEN Abs(ShoelaceSum(coords[1], Len(coords[1]) - 1))
             ELSE 0
    ELSE 0

\* The area of calculate_building_features.  The value held is
\* abs(area_sum), in squared coordinate units; the code returns it times
\* the fixed factor 111320 * 111320 / 2.
FeatureArea(feature) ==
    IF Has(feature, "geometry")
    THEN LET coords == feature.geometry.coordinates
         IN  IF Len(coords) > 0 /\ Len(coords[1]) > 0 /\ Len(coords[1]) > 2
             THEN Abs(ShoelaceSum(coords[1], Len(coords[1])))
             ELSE 0
    ELSE 0

\* The height estimate of calculate_building_features, in height steps.
FeatureHeight(props) ==
    IF Has(props, "height")
    THEN LET height_str == Strip(Remove(Remove(props["height"], <<"m">>), <<"f", "t">>))
         IN  IF FloatParses(height_str)
             THEN IF Contains(Lower(props["height"]), <<"f", "t">>)
                  THEN Times(FloatValue(height_str), (Metre * 3048) \div 10000)
                  ELSE Times(FloatValue(height_str), Metre)
             ELSE 0
    ELSE IF Has(props, "building:levels")
    THEN IF FloatParses(props["building:levels"])
         THEN Times(FloatValue(props["building:levels"]), 3 * Metre)
         ELSE 0
    ELSE 0

calculate_building_features(feature) ==
    LET props == IF Has(feature, "properties") THEN feature.properties ELSE <<>>
    IN  [area |-> FeatureArea(feature), height |-> FeatureHeight(props)]

\* ------------------------------------------------------ Feature Normalizer
\* d.get(k), d.get(k, default) on a map that may lack the key.
GetOr(d, k, default) == IF Has(d, k) THEN d[k] ELSE default

EmptyTags == [k \in {} |-> <<>>]

\* The outcome of normalizing: raised is TRUE when the code throws
\* (KeyError on a vertex without lon or lat, ValueError from float()).
Raised == [raised |-> TRUE, features |-> <<>>]

Returned(fs) == [raised |-> FALSE, features |-> fs]

\* [[p["lon"], p["lat"]] for p in geometry] throws on a vertex that lacks
\* either key.
VerticesComplete(geometry) ==
    \A i \in 1..Len(geometry) : Has(geometry[i], "lon") /\ Has(geometry[i], "lat")

ToCoords(geometry) == [i \in 1..Len(geometry) |-> <<geometry[i].lon, geometry[i].lat>>]

\* A slip that appends the first vertex to a ring that is already closed.
CloseRing_always(coords) == Append(coords, coords[1])

\* if coords[0] != coords[-1]: coords.append(coords[0])
CloseRing(coords) ==
    IF coords[1] # coords[Len(coords)] THEN Append(coords, coords[1]) ELSE coords

MakeFeature(elem, coords, tags) ==
    [type       |-> "Feature",
     id         |-> GetOr(elem, "id", 0),
     geometry   |-> [type |-> "Polygon", coordinates |-> <<coords>>],
     properties |-> tags]

\* The way branch.
NormalizeWay(elem) ==
    IF Len(elem.geometry) < 3 THEN Returned(<<>>)
    ELSE IF ~VerticesComplete(elem.geometry) THEN Raised
    ELSE Returned(<<MakeFeature(elem, CloseRing(ToCoords(elem.geometry)),
                                GetOr(elem, "tags", EmptyTags))>>)

\* The text handed to float() in the node branch, <<"0">> standing for the
\* number 0 that "or 0" substitutes for an empty text.
NodeHeightText(height) ==
    LET h == Remove(Remove(height, <<"m">>), <<" ">>)
    IN  IF h = <<>> THEN <<"0">> ELSE h

\* The closed square ring of half-width offset around a point, as the node
\* branch (offsets 0.0008, 0.0006, 0.0003) and delete_building draw it.
SquareAround(lon, lat, offset) ==
    << <<FSub(lon, offset), FSub(lat, offset)>>,
       <<FAdd(lon, offset), FSub(lat, offset)>>,
       <<FAdd(lon, offset), FAdd(lat, offset)>>,
       <<FSub(lon, offset), FAdd(lat, offset)>>,
       <<FSub(lon, offset), FSub(lat, offset)>> >>

\* The node branch.
NormalizeNode(elem) ==
    LET tags     == GetOr(elem, "tags", EmptyTags)
        height   == GetOr(tags, "height", <<>>)
        is_tower == \/ Has(tags, "man_made") /\ tags["man_made"] = "tower"
                    \/ Has(tags, "tourism") /\ tags["tourism"] = "attraction"
    IN  IF is_tower
        THEN Returned(<<MakeFeature(elem, SquareAround(elem.lon, elem.lat, 8), tags)>>)
        ELSE IF height # <<>> /\ ~FloatParses(NodeHeightText(height)) THEN Raised
        ELSE IF height # <<>> /\ FloatValue(NodeHeightText(height)) > 100
        THEN Returned(<<MakeFeature(elem, SquareAround(elem.lon, elem.lat, 6), tags)>>)
        ELSE Returned(<<MakeFeature(elem, SquareAround(elem.lon, elem.lat, 3), tags)>>)

\* The members of a relation whose vertices go into outer_coords.
\* Variant that takes the geometry of every member way, whatever its role.
IsOuterWay_any_role(member) ==
    /\ Has(member, "type") /\ member.type = "way"
    /\ GetOr(member, "geometry", <<>>) # <<>>

IsOuterWay(member) ==
    /\ Has(member, "role") /\ member.role = "outer"
    /\ Has(member, "type") /\ member.type = "way"
    /\ GetOr(member, "geometry", <<>>) # <<>>

RECURSIVE OuterCoords(_)
OuterCoords(members) ==
    IF members = <<>> THEN <<>>
    ELSE (IF IsOuterWay(Head(members)) THEN ToCoords(Head(members).geometry) ELSE <<>>)
         \o OuterCoords(Tail(members))

\* The fallback loop: the first member whose geometry has 3 vertices or more.
RECURSIVE FirstMemberRing(_)
FirstMemberRing(members) ==
    IF members = <<>> THEN [raised |-> FALSE, ring |-> <<>>]
    ELSE LET geometry == GetOr(Head(members), "geometry", <<>>)
         IN  IF Len(geometry) >= 3
             THEN IF VerticesComplete(geometry)
                  THEN [raised |-> FALSE, ring |-> CloseRing(ToCoords(geometry))]
                  ELSE [raised |-> TRUE, ring |-> <<>>]
             ELSE FirstMemberRing(Tail(members))

\* The relation branch.
NormalizeRelation(elem) ==
    LET members == GetOr(elem, "members", <<>>)
        tags    == GetOr(elem, "tags", EmptyTags)
    IN  IF \E i \in 1..Len(members) :
              IsOuterWay(members[i]) /\ ~VerticesComplete(members[i].geometry)
        THEN Raised
        ELSE IF Len(OuterCoords(members)) >= 3
        THEN Returned(<<MakeFeature(elem, CloseRing(OuterCoords(members)), tags)>>)
        ELSE LET first == FirstMemberRing(members)
             IN  IF first.raised THEN Raised
                 ELSE IF first.ring = <<>> THEN Returned(<<>>)
                 ELSE Returned(<<MakeFeature(elem, first.ring, tags)>>)

\* One pass of the loop "for elem in elements".
NormalizeElement(elem) ==
    IF GetOr(elem, "type", "") = "way" /\ Has(elem, "geometry") THEN NormalizeWay(elem)
    ELSE IF GetOr(elem, "type", "") = "node" /\ Has(elem, "lat") /\ Has(elem, "lon")
    THEN NormalizeNode(elem)
    ELSE IF GetOr(elem, "type", "") = "relation" THEN NormalizeRelation(elem)
    ELSE Returned(<<>>)

\* The whole loop: the list of buildings, or the exception that leaves it.
RECURSIVE NormalizeElements(_)
NormalizeElements(elements) ==
    IF elements = <<>> THEN Returned(<<>>)
    ELSE LET first == NormalizeElement(Head(elements))
             rest  == NormalizeElements(Tail(elements))
         IN  IF first.raised \/ rest.raised THEN Raised
             ELSE Returned(first.features \o rest.features)

\* ------------------------------------------------------------------ Ranker
\* The key of an item is not a number: max(nan, 3) is nan, and so is
\* area / nan.
KeyIsNaN(sort_by, a) == sort_by \in {"height", "underdeveloped"} /\ a.height = NaN

\* key(a) > key(b) for the key that sort_by selects; the underdeveloped key
\* area / max(height, 3) is compared by cross-multiplication, the heights
\* counted in 8 steps (every height is a multiple of 8 steps, as 3048 and
\* Metre are).  No comparison with a nan key is true.
KeyGreater(sort_by, a, b) ==
    IF KeyIsNaN(sort_by, a) \/ KeyIsNaN(sort_by, b) THEN FALSE
    ELSE IF sort_by = "height" THEN a.height > b.height
    ELSE IF sort_by = "area" THEN a.area > b.area
    ELSE IF sort_by = "progress" THEN a.progress > b.progress
    ELSE IF sort_by = "underdeveloped"
    THEN a.area * (Max(b.height, 3 * Metre) \div 8) > b.area * (Max(a.height, 3 * Metre) \div 8)
    ELSE a.area > b.area

\* key(a) < key(b), the one comparison list.sort makes.
KeyLess(sort_by, a, b) == KeyGreater(sort_by, b, a)

RECURSIVE Reverse(_)
Reverse(items) == IF items = <<>> THEN <<>> ELSE Append(Reverse(Tail(items)), Head(items))

\* list.sort on a list of fewer than 64 items (CPython 3.11): count_run
\* takes the longest run at the head, strictly descending or not
\* descending, and the rest goes in by binary insertion.
RECURSIVE RunLength(_, _, _, _)
RunLength(items, n, descending, sort_by) ==
    IF n >= Len(items) THEN n
    ELSE IF KeyLess(sort_by, items[n + 1], items[n]) = descending
    THEN RunLength(items, n + 1, descending, sort_by)
    ELSE n

\* The place binarysort finds for pivot in sorted[l+1 .. r], 0-based l, r.
RECURSIVE BinaryPlace(_, _, _, _, _)
BinaryPlace(sorted, pivot, l, r, sort_by) ==
    IF l >= r THEN l
    ELSE LET p == l + ((r - l) \div 2)
         IN  IF KeyLess(sort_by, pivot, sorted[p + 1])
             THEN BinaryPlace(sorted, pivot, l, p, sort_by)
             ELSE BinaryPlace(sorted, pivot, p + 1, r, sort_by)

RECURSIVE BinarySort(_, _, _)
BinarySort(items, start, sort_by) ==
    IF start >= Len(items) THEN items
    ELSE LET pivot  == items[start + 1]
             l      == BinaryPlace(items, pivot, 0, start, sort_by)
             placed == SubSeq(items, 1, l) \o <<pivot>> \o SubSeq(items, l + 1, start)
                       \o SubSeq(items, start + 2, Len(items))
         IN  BinarySort(placed, start + 1, sort_by)

SortAscending(items, sort_by) ==
    IF Len(items) < 2 THEN items
    ELSE LET descending == KeyLess(sort_by, items[2], items[1])
             n          == RunLength(items, 2, descending, sort_by)
             run        == IF descending
                           THEN Reverse(SubSeq(items, 1, n)) \o SubSeq(items, n + 1, Len(items))
                           ELSE items
         IN  BinarySort(run, n, sort_by)

\* list.sort(key=..., reverse=True): the list is reversed, sorted and
\* reversed again, which keeps items of equal key in their order.
SortDescending(items, sort_by) == Reverse(SortAscending(Reverse(items), sort_by))

\* building_attributes.get("sort_by") if building_attributes else None;
\* "null" stands for None.
SortByOf(building_attributes) ==
    IF building_attributes = [json |-> "null"] \/ DOMAIN building_attributes = {}
    THEN "null"
    ELSE GetOr(building_attributes, "sort_by", "null")

\* buildings_with_features: each polygon with its area and height
RECURSIVE WithFeatures(_)
WithFeatures(polygons) ==
    IF polygons = <<>> THEN <<>>
    ELSE LET f == calculate_building_features(Head(polygons))
         IN  << [feature |-> Head(polygons), area |-> f.area, height |-> f.height] >>
             \o WithFeatures(Tail(polygons))

\* [b["feature"] for b in buildings_with_features]
RECURSIVE FeaturesOf(_)
FeaturesOf(items) ==
    IF items = <<>> THEN <<>> ELSE <<Head(items).feature>> \o FeaturesOf(Tail(items))

rank_buildings(features, building_attributes) ==
    LET polygons == SelectSeq(features, LAMBDA f : /\ Has(f, "geometry")
                                                   /\ Has(f.geometry, "type")
                                                   /\ f.geometry.type = "Polygon")
        buildings_with_features == WithFeatures(polygons)
        ranked == SortDescending(buildings_with_features, SortByOf(building_attributes))
    IN  FeaturesOf(ranked)

RECURSIVE SumOf(_, _)
SumOf(ring, k) == IF ring = <<>> THEN 0 ELSE Head(ring)[k] + SumOf(Tail(ring), k)

\* get_building_center: the mean of the ring's vertices, <<lon, lat>>.
get_building_center(feature) ==
    LET coords == feature.geometry.coordinates
    IN  IF Len(coords) > 0 /\ Len(coords[1]) > 0
        THEN <<FDiv(SumOf(coords[1], 1), Len(coords[1])),
               FDiv(SumOf(coords[1], 2), Len(coords[1]))>>
        ELSE <<0, 0>>

\* geocoding_service.py calculate_zoom_for_location_type
calculate_zoom_for_location_type(location_type) ==
    CASE location_type = "city"           -> 12
      [] location_type = "administrative" -> 12
      [] location_type = "town"           -> 13
      [] location_type = "village"        -> 14
      [] location_type = "neighbourhood"  -> 15
      [] location_type = "building"       -> 17
      [] location_type = "landmark"       -> 16
      [] location_type = "amenity"        -> 16
      [] location_type = "house"          -> 18
      [] OTHER                            -> 15

\* ----------------------------------------------------------- Intent Router
\* JSON null (Python None) as the value of a key that holds a dict
\* otherwise; it differs from every dict, the empty one included.
Null == [json |-> "null"]

EmptyDict == [k \in {} |-> 0]

\* "if d:" on a value that is None or a dict
Truthy(d) == d # Null /\ DOMAIN d # {}

\* The parsed intent, and intent.get("action", "search_area").
I == Get(intent)

\* Variant in which an intent without action is taken for a navigation.
Action_default_navigate == GetOr(I, "action", "navigate")

Action == GetOr(I, "action", "search_area")

\* The exception handler at the foot of agentic_search turns whatever is
\* thrown inside into HTTPException(500).
Raise500 ==
    /\ raised' = "HTTPException 500"
    /\ pc' = "done"
    /\ UNCHANGED response

Respond(r) ==
    /\ response' = Some(r)
    /\ pc' = "done"
    /\ UNCHANGED raised

\* await geocoding_svc.geocode(query): the call is logged with its query.
CallGeocode(query, return_to) ==
    /\ geocode_calls' = Append(geocode_calls, [query |-> query, outcome |-> "pending"])
    /\ pc' = return_to
    /\ UNCHANGED <<response, raised>>

\* The log once the pending call has ended in outcome.
GeocodeLogged(outcome) ==
    [geocode_calls EXCEPT ![Len(geocode_calls)].outcome = outcome.kind]

\* Step 1: await openai_svc.parse_search_intent(request.query)
ParseIntent(i) ==
    /\ pc = "start"
    /\ intent' = Some(i)
    /\ pc' = "route"
    /\ UNCHANGED <<request, geocode_calls, landmark, location, fetch, buildings,
                   response, raised>>
    /\ UNCHANGED <<harnessVars, jobVars>>

\* === Weather Control ===
WeatherAnswer(weather_type) ==
    IF weather_type = "rain" THEN <<"Making it rain...">>
    ELSE IF weather_type = "snow" THEN <<"Adding snow effect...">>
    ELSE IF weather_type = "clear" THEN <<"Clearing the weather...">>
    ELSE <<"Setting weather to", weather_type>>

SetWeather ==
    /\ pc = "route"
    /\ Action = "set_weather"
    /\ LET weather_settings == GetOr(I, "weather_settings", [type |-> "clear"])
       IN  IF weather_settings = Null THEN Raise500
           ELSE Respond([intent           |-> I,
                         action           |-> "set_weather",
                         answer           |-> WeatherAnswer(GetOr(weather_settings, "type", "clear")),
                         weather_settings |-> weather_settings,
                         coordinates      |-> None,
                         target           |-> None,
                         candidates       |-> <<>>,
                         should_fly_to    |-> FALSE,
                         zoom_level       |-> None])
    /\ UNCHANGED <<request, intent, geocode_calls, landmark, location, fetch, buildings>>
    /\ UNCHANGED <<harnessVars, jobVars>>

\* === Time Control ===
TimeAnswer(preset) ==
    IF preset = "night" THEN <<"Switching to night mode...">>
    ELSE IF preset = "day" THEN <<"Switching to day mode...">>
    ELSE <<"Setting time to", preset>>

SetTime ==
    /\ pc = "route"
    /\ Action = "set_time"
    /\ LET time_settings == GetOr(I, "time_settings", [preset |-> "day"])
       IN  IF time_settings = Null THEN Raise500
           ELSE Respond([intent        |-> I,
                         action        |-> "set_time",
                         answer        |-> TimeAnswer(GetOr(time_settings, "preset", "day")),
                         time_settings |-> time_settings,
                         coordinates   |-> None,
                         target        |-> None,
                         candidates    |-> <<>>,
                         should_fly_to |-> FALSE,
                         zoom_level    |-> None])
    /\ UNCHANGED <<request, intent, geocode_calls, landmark, location, fetch, buildings>>
    /\ UNCHANGED <<harnessVars, jobVars>>

\* === Camera Control ===
CameraAnswer(camera_settings) ==
    IF GetOr(camera_settings, "zoom_delta", 0) # 0
    THEN IF camera_settings["zoom_delta"] > 0 THEN <<"Zooming in...">> ELSE <<"Zooming out...">>
    ELSE IF Has(camera_settings, "pitch") /\ camera_settings["pitch"] = 0
    THEN <<"Switching to bird's eye view...">>
    ELSE IF GetOr(camera_settings, "pitch", 0) # 0 THEN <<"Adjusting camera tilt...">>
    ELSE IF GetOr(camera_settings, "bearing_delta", 0) # 0 THEN <<"Rotating the view...">>
    ELSE <<"Adjusting camera...">>

CameraControl ==
    /\ pc = "route"
    /\ Action = "camera_control"
    /\ LET camera_settings == GetOr(I, "camera_settings", EmptyDict)
       IN  IF camera_settings = Null THEN Raise500
           ELSE Respond([intent          |-> I,
                         action          |-> "camera_control",
                         answer          |-> CameraAnswer(camera_settings),
                         camera_settings |-> camera_settings,
                         coordinates     |-> None,
                         target          |-> None,
                         candidates      |-> <<>>,
                         should_fly_to   |-> FALSE,
                         zoom_level      |-> None])
    /\ UNCHANGED <<request, intent, geocode_calls, landmark, location, fetch, buildings>>
    /\ UNCHANGED <<harnessVars, jobVars>>

\* === Delete Building ===
\* any(t in query_lower for t in towers), any(b in query_lower for b in
\* large_buildings): a location query is a list of lower-case words here and
\* a keyword is found when it is one of them.
TowerWords == {"cn tower", "eiffel tower", "empire state", "burj khalifa", "tokyo tower",
               "space needle"}

LargeBuildingWords == {"rogers centre", "skydome", "stadium", "arena", "convention"}

HasWord(query, words) == \E i \in 1..Len(query) : query[i] \in words

DeleteOffset(location_query) ==
    IF HasWord(location_query, TowerWords) THEN 4
    ELSE IF HasWord(location_query, LargeBuildingWords) THEN 12
    ELSE 6

\* Variant that resolves the raw query when the intent names no location.
DeleteBuilding_resolves_query ==
    /\ pc = "route"
    /\ Action = "delete_building"
    /\ LET location_query == GetOr(I, "location_query", <<>>)
       IN  IF location_query # <<>> \/ Get(request).query # <<>>
           THEN CallGeocode(IF location_query # <<>> THEN location_query
                            ELSE Get(request).query, "delete_geocode")
           ELSE /\ Respond([intent        |-> I,
                            action        |-> "delete_building",
                            answer        |-> <<"Select a building to delete or specify a location">>,
                            coordinates   |-> None,
                            target        |-> None,
                            candidates    |-> <<>>,
                            should_fly_to |-> FALSE,
                            zoom_level    |-> None])
                /\ UNCHANGED geocode_calls
    /\ UNCHANGED <<request, intent, landmark, location, fetch, buildings>>
    /\ UNCHANGED <<harnessVars, jobVars>>

DeleteBuilding ==
    /\ pc = "route"
    /\ Action = "delete_building"
    /\ LET location_query == GetOr(I, "location_query", <<>>)
       IN  IF location_query # <<>>
           THEN CallGeocode(location_query, "delete_geocode")
           ELSE /\ Respond([intent        |-> I,
                            action        |-> "delete_building",
                            answer        |-> <<"Select a building to delete or specify a location">>,
                            coordinates   |-> None,
                            target        |-> None,
                            candidates    |-> <<>>,
                            should_fly_to |-> FALSE,
                            zoom_level    |-> None])
                /\ UNCHANGED geocode_calls
    /\ UNCHANGED <<request, intent, landmark, location, fetch, buildings>>
    /\ UNCHANGED <<harnessVars, jobVars>>

\* geocode() returns a GeocodingResult, or None (nothing found, a
\* ClientError, KeyError or ValueError inside), or lets the
\* asyncio.TimeoutError of its 10 s ClientTimeout through.
DeleteGeocoded(outcome) ==
    /\ pc = "delete_geocode"
    /\ location' = (IF outcome.kind = "found" THEN Some(outcome.value) ELSE None)
    /\ LET location_query == I["location_query"]
           offset         == DeleteOffset(location_query)
       IN  IF outcome.kind = "timeout" THEN Raise500
           ELSE IF outcome.kind = "found"
           THEN LET lat == outcome.value.lat
                    lon == outcome.value.lon
                IN  Respond([intent        |-> I,
                             action        |-> "delete_building",
                             answer        |-> <<"Deleting">> \o location_query,
                             coordinates   |-> Some(<<lon, lat>>),
                             target        |-> None,
                             delete_target |->
                                 [type       |-> "Feature",
                                  geometry   |-> [type |-> "Polygon",
                                                  coordinates |-> <<SquareAround(lon, lat, offset)>>],
                                  properties |-> [name |-> location_query]],
                             candidates    |-> <<>>,
                             should_fly_to |-> TRUE,
                             zoom_level    |-> Some(17)])
           ELSE Respond([intent        |-> I,
                         action        |-> "delete_building",
                         answer        |-> <<"Couldn't find location:">> \o location_query,
                         coordinates   |-> None,
                         target        |-> None,
                         candidates    |-> <<>>,
                         should_fly_to |-> FALSE,
                         zoom_level    |-> None])
    /\ geocode_calls' = GeocodeLogged(outcome)
    /\ UNCHANGED <<request, intent, landmark, fetch, buildings>>
    /\ UNCHANGED <<harnessVars, jobVars>>

\* === Navigate ===
Navigate ==
    /\ pc = "route"
    /\ Action = "navigate"
    /\ LET location_query == GetOr(I, "location_query", <<>>)
       IN  CallGeocode(IF location_query # <<>> THEN location_query ELSE Get(request).query,
                       "navigate_geocode")
    /\ UNCHANGED <<request, intent, landmark, location, fetch, buildings>>
    /\ UNCHANGED <<harnessVars, jobVars>>

NavigateGeocoded(outcome) ==
    /\ pc = "navigate_geocode"
    /\ location' = (IF outcome.kind = "found" THEN Some(outcome.value) ELSE None)
    /\ LET location_query == geocode_calls[Len(geocode_calls)].query
       IN  IF outcome.kind = "timeout" THEN Raise500
           ELSE IF outcome.kind # "found"
           THEN Respond([intent        |-> I,
                         answer        |-> <<"I couldn't find">> \o location_query,
                         coordinates   |-> None,
                         target        |-> None,
                         candidates    |-> <<>>,
                         should_fly_to |-> FALSE,
                         zoom_level    |-> None])
           ELSE Respond([intent        |-> I,
                         answer        |-> <<"Flying to", outcome.value.display_name>>,
                         coordinates   |-> Some(<<outcome.value.lon, outcome.value.lat>>),
                         target        |-> None,
                         candidates    |-> <<>>,
                         should_fly_to |-> TRUE,
                         zoom_level    |->
                             Some(calculate_zoom_for_location_type(outcome.value.location_type))])
    /\ geocode_calls' = GeocodeLogged(outcome)
    /\ UNCHANGED <<request, intent, landmark, fetch, buildings>>
    /\ UNCHANGED <<harnessVars, jobVars>>

\* === Spatial Fetcher ===
\* endpoints, in list order
Endpoints == <<"overpass-api.de", "overpass.kumi.systems", "z.overpass-api.de">>

\* Variant that queries the box as it is handed in, whatever its size.
StartFetch_unclamped(bbox, include_towers) ==
    /\ fetch' = Some([bbox           |-> bbox,
                      include_towers |-> include_towers,
                      attempts       |-> <<>>,
                      data           |-> None])
    /\ pc' = "fetch"
    /\ UNCHANGED <<response, raised>>

\* Entry of fetch_buildings_in_bbox: the box is clamped and the query built.
StartFetch(bbox, include_towers) ==
    /\ fetch' = Some([bbox           |-> ClampBBox(bbox),
                      include_towers |-> include_towers,
                      attempts       |-> <<>>,
                      data           |-> None])
    /\ pc' = "fetch"
    /\ UNCHANGED <<response, raised>>

F == Get(fetch)

LastAttempt == F.attempts[Len(F.attempts)]

\* Variant of the loop without its break: the next endpoint is posted to
\* whatever the previous attempt ended in.
AttemptStart_no_break ==
    /\ pc = "fetch"
    /\ Len(F.attempts) < Len(Endpoints)
    /\ F.attempts # <<>> => LastAttempt.status # "pending"
    /\ fetch' = Some([F EXCEPT !.attempts =
                        Append(@, [endpoint |-> Endpoints[Len(F.attempts) + 1],
                                   status   |-> "pending",
                                   body     |-> None])])
    /\ UNCHANGED <<pc, request, intent, geocode_calls, landmark, location, buildings,
                   response, raised>>
    /\ UNCHANGED <<harnessVars, jobVars>>

\* "for endpoint in endpoints": the next endpoint is posted to when the loop
\* has not been left by break and the previous attempt went to "continue".
AttemptStart ==
    /\ pc = "fetch"
    /\ Len(F.attempts) < Len(Endpoints)
    /\ F.attempts # <<>> => LastAttempt.status \in {"client_error", "timeout"}
    /\ fetch' = Some([F EXCEPT !.attempts =
                        Append(@, [endpoint |-> Endpoints[Len(F.attempts) + 1],
                                   status   |-> "pending",
                                   body     |-> None])])
    /\ UNCHANGED <<pc, request, intent, geocode_calls, landmark, location, buildings,
                   response, raised>>
    /\ UNCHANGED <<harnessVars, jobVars>>

\* Variant whose except clause names aiohttp.ClientError alone: a timeout
\* leaves the function.
AttemptFails_timeout_escapes(status) ==
    /\ pc = "fetch"
    /\ F.attempts # <<>>
    /\ LastAttempt.status = "pending"
    /\ fetch' = Some([F EXCEPT !.attempts[Len(F.attempts)].status = status])
    /\ IF status = "timeout" THEN Raise500 ELSE UNCHANGED <<pc, response, raised>>
    /\ UNCHANGED <<request, intent, geocode_calls, landmark, location, buildings>>
    /\ UNCHANGED <<harnessVars, jobVars>>

\* The attempt ends in aiohttp.ClientError or asyncio.TimeoutError: continue.
AttemptFails(status) ==
    /\ pc = "fetch"
    /\ F.attempts # <<>>
    /\ LastAttempt.status = "pending"
    /\ fetch' = Some([F EXCEPT !.attempts[Len(F.attempts)].status = status])
    /\ UNCHANGED <<pc, request, intent, geocode_calls, landmark, location, buildings,
                   response, raised>>
    /\ UNCHANGED <<harnessVars, jobVars>>

\* data = await response.json(); break.  A body of JSON null leaves data None.
AttemptSucceeds(body) ==
    /\ pc = "fetch"
    /\ F.attempts # <<>>
    /\ LastAttempt.status = "pending"
    /\ fetch' = Some([F EXCEPT !.attempts[Len(F.attempts)].status = "ok",
                               !.attempts[Len(F.attempts)].body = Some(body),
                               !.data = IF body = Null THEN None ELSE Some(body)])
    /\ UNCHANGED <<pc, request, intent, geocode_calls, landmark, location, buildings,
                   response, raised>>
    /\ UNCHANGED <<harnessVars, jobVars>>

\* response.json() throws json.JSONDecodeError on a body that is not JSON;
\* it is neither a ClientError nor a TimeoutError and leaves the function.
AttemptBadBody ==
    /\ pc = "fetch"
    /\ F.attempts # <<>>
    /\ LastAttempt.status = "pending"
    /\ fetch' = Some([F EXCEPT !.attempts[Len(F.attempts)].status = "bad_body"])
    /\ Raise500
    /\ UNCHANGED <<request, intent, geocode_calls, landmark, location, buildings>>
    /\ UNCHANGED <<harnessVars, jobVars>>

\* The loop is over: left by break, or every endpoint went to "continue".
LoopOver ==
    /\ F.attempts # <<>>
    /\ \/ LastAttempt.status = "ok"
       \/ Len(F.attempts) = Len(Endpoints) /\ LastAttempt.status \in {"client_error", "timeout"}

\* Variant in which no answer from any endpoint is an error of the request.
FetchReturn_raises_without_data ==
    /\ pc = "fetch"
    /\ LoopOver
    /\ LET elements == IF IsNone(F.data) THEN <<>> ELSE GetOr(Get(F.data), "elements", <<>>)
           outcome  == NormalizeElements(elements)
       IN  IF outcome.raised \/ IsNone(F.data)
           THEN Raise500 /\ UNCHANGED buildings
           ELSE /\ buildings' = outcome.features
                /\ pc' = "fetched"
                /\ UNCHANGED <<response, raised>>
    /\ UNCHANGED <<request, intent, geocode_calls, landmark, location, fetch>>
    /\ UNCHANGED <<harnessVars, jobVars>>

\* The rest of fetch_buildings_in_bbox: [] when data is None, else the
\* normalized elements of data.
FetchReturn ==
    /\ pc = "fetch"
    /\ LoopOver
    /\ LET elements == IF IsNone(F.data) THEN <<>> ELSE GetOr(Get(F.data), "elements", <<>>)
           outcome  == NormalizeElements(elements)
       IN  IF outcome.raised
           THEN Raise500 /\ UNCHANGED buildings
           ELSE /\ buildings' = outcome.features
                /\ pc' = "fetched"
                /\ UNCHANGED <<response, raised>>
    /\ UNCHANGED <<request, intent, geocode_calls, landmark, location, fetch>>
    /\ UNCHANGED <<harnessVars, jobVars>>

\* === Q&A Mode ===
\* Variant that leaves out the keys whose value is absent.
QuestionResponse_sparse(coordinates, building_data) ==
    LET base == [intent        |-> I,
                 action        |-> "question",
                 answer        |-> <<"generate_qa_answer">>,
                 candidates    |-> <<>>,
                 should_fly_to |-> IsSome(coordinates)]
        found == [coordinates |-> coordinates, zoom_level |-> Some(16)]
        data  == [target  |-> building_data,
                  qa_data |-> Some(GetOr(Get(building_data), "properties", EmptyTags))]
    IN  base @@ (IF IsSome(coordinates) THEN found ELSE EmptyDict)
             @@ (IF IsSome(building_data) THEN data ELSE EmptyDict)

QuestionResponse(coordinates, building_data) ==
    [intent        |-> I,
     action        |-> "question",
     answer        |-> <<"generate_qa_answer">>,
     coordinates   |-> coordinates,
     target        |-> building_data,
     candidates    |-> <<>>,
     should_fly_to |-> IsSome(coordinates),
     zoom_level    |-> IF IsSome(coordinates) THEN Some(16) ELSE None,
     qa_data       |-> IF IsSome(building_data)
                       THEN Some(GetOr(Get(building_data), "properties", EmptyTags))
                       ELSE None]

Question ==
    /\ pc = "route"
    /\ Action = "question"
    /\ LET question_context == GetOr(I, "question_context", EmptyDict)
       IN  IF question_context = Null THEN Raise500 /\ UNCHANGED geocode_calls
           ELSE IF GetOr(question_context, "target_name", <<>>) # <<>>
           THEN CallGeocode(question_context["target_name"], "question_geocode")
           ELSE Respond(QuestionResponse(None, None)) /\ UNCHANGED geocode_calls
    /\ UNCHANGED <<request, intent, landmark, location, fetch, buildings>>
    /\ UNCHANGED <<harnessVars, jobVars>>

QuestionGeocoded(outcome) ==
    /\ pc = "question_geocode"
    /\ location' = (IF outcome.kind = "found" THEN Some(outcome.value) ELSE None)
    /\ IF outcome.kind = "timeout" THEN Raise500 /\ UNCHANGED fetch
       ELSE IF outcome.kind = "found"
       THEN StartFetch(expand_bbox_from_center(<<outcome.value.lon, outcome.value.lat>>, 5000),
                       TRUE)
       ELSE Respond(QuestionResponse(None, None)) /\ UNCHANGED fetch
    /\ geocode_calls' = GeocodeLogged(outcome)
    /\ UNCHANGED <<request, intent, landmark, buildings>>
    /\ UNCHANGED <<harnessVars, jobVars>>

\* target_lower in name or name in target_lower
NameMatches(building, target_name) ==
    LET name == Lower(GetOr(GetOr(building, "properties", EmptyTags), "name", <<>>))
    IN  Contains(name, Lower(target_name)) \/ Contains(Lower(target_name), name)

RECURSIVE BestMatch(_, _, _)
BestMatch(list, target_name, default) ==
    IF list = <<>> THEN default
    ELSE IF NameMatches(Head(list), target_name) THEN Head(list)
    ELSE BestMatch(Tail(list), target_name, default)

QuestionRespond ==
    /\ pc = "fetched"
    /\ Action = "question"
    /\ LET coordinates == Some(<<Get(location).lon, Get(location).lat>>)
           target_name == I["question_context"]["target_name"]
       IN  IF buildings # <<>>
           THEN Respond(QuestionResponse(coordinates,
                                         Some(BestMatch(buildings, target_name, buildings[1]))))
           ELSE Respond(QuestionResponse(coordinates, None))
    /\ UNCHANGED <<request, intent, geocode_calls, landmark, location, fetch, buildings>>
    /\ UNCHANGED <<harnessVars, jobVars>>

\* === Find Building ===
BuildingAttributes == GetOr(I, "building_attributes", Null)

SortBy == SortByOf(BuildingAttributes)

\* intent.get("search_radius_km") or default: a radius of 0 counts as none.
RadiusOr(default) ==
    IF GetOr(I, "search_radius_km", 0) # 0 THEN I["search_radius_km"] ELSE default

\* any(kw in landmark_lower for kw in tall_keywords): a display name is a
\* list of lower-case words here.
TallKeywords == {"tower", "skyscraper", "building", "centre", "center"}

\* search_center after the choice of the search area.
SearchCenter(loc) ==
    IF IsSome(loc) THEN Some(<<Get(loc).lon, Get(loc).lat>>)
    ELSE IF IsSome(Get(request).current_bounds) THEN Get(request).current_center
    ELSE None

\* From "if not bbox and request.current_bounds" to the call of the fetcher.
ChooseSearchArea(loc, default_radius) ==
    LET bbox == IF IsSome(loc)
                THEN Some(expand_bbox_from_center(<<Get(loc).lon, Get(loc).lat>>,
                                                  RadiusOr(default_radius)))
                ELSE Get(request).current_bounds
    IN  IF IsNone(bbox)
        THEN /\ Respond([intent        |-> I,
                         answer        |-> <<"I need a location or visible map area to search buildings.">>,
                         coordinates   |-> None,
                         target        |-> None,
                         candidates    |-> <<>>,
                         should_fly_to |-> FALSE,
                         zoom_level    |-> None])
             /\ UNCHANGED fetch
        ELSE StartFetch(Get(bbox), SortBy = "height")

FindBuilding ==
    /\ pc = "route"
    /\ Action = "find_building"
    /\ LET location_query == GetOr(I, "location_query", <<>>)
       IN  IF location_query # <<>> /\ SortBy = "height"
           THEN /\ CallGeocode(<<"tallest building">> \o location_query, "landmark_geocode")
                /\ UNCHANGED fetch
           ELSE IF location_query # <<>>
           THEN /\ CallGeocode(location_query, "location_geocode")
                /\ UNCHANGED fetch
           ELSE /\ ChooseSearchArea(None, 10000)
                /\ UNCHANGED geocode_calls
    /\ UNCHANGED <<request, intent, landmark, location, buildings>>
    /\ UNCHANGED <<harnessVars, jobVars>>

\* landmark = await geocode(landmark_query); then the location is geocoded.
FindLandmarkGeocoded(outcome) ==
    /\ pc = "landmark_geocode"
    /\ landmark' = (IF outcome.kind = "found" THEN Some(outcome.value) ELSE None)
    /\ IF outcome.kind = "timeout"
       THEN Raise500 /\ geocode_calls' = GeocodeLogged(outcome)
       ELSE /\ geocode_calls' = Append(GeocodeLogged(outcome),
                                       [query |-> I["location_query"], outcome |-> "pending"])
            /\ pc' = "location_geocode"
            /\ UNCHANGED <<response, raised>>
    /\ UNCHANGED <<request, intent, location, fetch, buildings>>
    /\ UNCHANGED <<harnessVars, jobVars>>

IsTallLandmark(lm) ==
    /\ IsSome(lm)
    /\ Get(lm).location_type \in {"poi", "place"}
    /\ HasWord(Get(lm).display_name, TallKeywords)

\* location = await geocode(location_query), in either branch.
FindLocationGeocoded(outcome) ==
    /\ pc = "location_geocode"
    /\ location' = (IF outcome.kind = "found" THEN Some(outcome.value) ELSE None)
    /\ IF outcome.kind = "timeout" THEN Raise500 /\ UNCHANGED fetch
       ELSE IF SortBy = "height" /\ IsTallLandmark(landmark)
       THEN /\ Respond([intent        |-> I,
                        answer        |-> <<"Flying to">> \o Get(landmark).display_name,
                        coordinates   |-> Some(<<Get(landmark).lon, Get(landmark).lat>>),
                        target        |-> None,
                        candidates    |-> <<>>,
                        should_fly_to |-> TRUE,
                        zoom_level    |->
                            Some(calculate_zoom_for_location_type(Get(landmark).location_type))])
            /\ UNCHANGED fetch
       ELSE ChooseSearchArea(IF outcome.kind = "found" THEN Some(outcome.value) ELSE None,
                             IF SortBy = "height" THEN 20000 ELSE 10000)
    /\ geocode_calls' = GeocodeLogged(outcome)
    /\ UNCHANGED <<request, intent, landmark, buildings>>
    /\ UNCHANGED <<harnessVars, jobVars>>

\* ranked[1:limit + 1]: one candidate more than the limit allows.
Candidates_one_more(ranked, building_attributes) ==
    LET limit == IF Truthy(building_attributes) THEN GetOr(building_attributes, "limit", 5) ELSE 5
    IN  IF Len(ranked) > 1
        THEN SubSeq(ranked, 2, IF limit + 1 < Len(ranked) THEN limit + 1 ELSE Len(ranked))
        ELSE <<>>

\* ranked[1:limit]
Candidates(ranked, building_attributes) ==
    LET limit == IF Truthy(building_attributes) THEN GetOr(building_attributes, "limit", 5) ELSE 5
    IN  IF Len(ranked) > 1 THEN SubSeq(ranked, 2, IF limit < Len(ranked) THEN limit ELSE Len(ranked))
        ELSE <<>>

FindRespond ==
    /\ pc = "fetched"
    /\ Action = "find_building"
    /\ LET search_center == SearchCenter(location)
           ranked        == rank_buildings(buildings, BuildingAttributes)
       IN  IF buildings = <<>>
           THEN Respond([intent        |-> I,
                         answer        |-> <<"generate_search_answer">>,
                         coordinates   |-> search_center,
                         target        |-> None,
                         candidates    |-> <<>>,
                         should_fly_to |-> IsSome(search_center),
                         zoom_level    |-> IF IsSome(search_center) THEN Some(15) ELSE None])
           ELSE Respond([intent        |-> I,
                         answer        |-> <<"generate_search_answer">>,
                         coordinates   |-> IF ranked # <<>>
                                           THEN Some(get_building_center(ranked[1]))
                                           ELSE search_center,
                         target        |-> IF ranked # <<>> THEN Some(ranked[1]) ELSE None,
                         candidates    |-> Candidates(ranked, BuildingAttributes),
                         should_fly_to |-> TRUE,
                         zoom_level    |-> Some(17)])
    /\ UNCHANGED <<request, intent, geocode_calls, landmark, location, fetch, buildings>>
    /\ UNCHANGED <<harnessVars, jobVars>>

\* === search_area, and every action that is not one of the above ===
RoutedActions ==
    {"set_weather", "set_time", "camera_control", "delete_building", "question",
     "navigate", "find_building"}

SearchArea ==
    /\ pc = "route"
    /\ Action \notin RoutedActions
    /\ IF IsNone(Get(request).current_bounds)
       THEN /\ Respond([intent        |-> I,
                        answer        |-> <<"I need a visible map area to explore buildings.">>,
                        coordinates   |-> None,
                        target        |-> None,
                        candidates    |-> <<>>,
                        should_fly_to |-> FALSE,
                        zoom_level    |-> None])
            /\ UNCHANGED fetch
       ELSE StartFetch(Get(Get(request).current_bounds), FALSE)
    /\ UNCHANGED <<request, intent, geocode_calls, landmark, location, buildings>>
    /\ UNCHANGED <<harnessVars, jobVars>>

\* Variant that ranks by the sort_by of the intent.
SearchAreaRespond_by_attributes ==
    /\ pc = "fetched"
    /\ Action \notin RoutedActions
    /\ LET ranked == rank_buildings(buildings, BuildingAttributes)
       IN  IF buildings = <<>>
           THEN Respond([intent        |-> I,
                         answer        |-> <<"No buildings found in this area.">>,
                         coordinates   |-> Get(request).current_center,
                         target        |-> None,
                         candidates    |-> <<>>,
                         should_fly_to |-> FALSE,
                         zoom_level    |-> None])
           ELSE Respond([intent        |-> I,
                         answer        |-> <<"Found", ToString(Len(buildings)), "buildings in this area.">>,
                         coordinates   |-> IF ranked # <<>>
                                           THEN Some(get_building_center(ranked[1]))
                                           ELSE Get(request).current_center,
                         target        |-> IF ranked # <<>> THEN Some(ranked[1]) ELSE None,
                         candidates    |-> IF Len(ranked) > 1
                                           THEN SubSeq(ranked, 2, IF Len(ranked) < 6 THEN Len(ranked) ELSE 6)
                                           ELSE <<>>,
                         should_fly_to |-> FALSE,
                         zoom_level    |-> None])
    /\ UNCHANGED <<request, intent, geocode_calls, landmark, location, fetch, buildings>>
    /\ UNCHANGED <<harnessVars, jobVars>>

SearchAreaRespond ==
    /\ pc = "fetched"
    /\ Action \notin RoutedActions
    /\ LET ranked == rank_buildings(buildings, [sort_by |-> "area"])
       IN  IF buildings = <<>>
           THEN Respond([intent        |-> I,
                         answer        |-> <<"No buildings found in this area.">>,
                         coordinates   |-> Get(request).current_center,
                         target        |-> None,
                         candidates    |-> <<>>,
                         should_fly_to |-> FALSE,
                         zoom_level    |-> None])
           ELSE Respond([intent        |-> I,
                         answer        |-> <<"Found", ToString(Len(buildings)), "buildings in this area.">>,
                         coordinates   |-> IF ranked # <<>>
                                           THEN Some(get_building_center(ranked[1]))
                                           ELSE Get(request).current_center,
                         target        |-> IF ranked # <<>> THEN Some(ranked[1]) ELSE None,
                         candidates    |-> IF Len(ranked) > 1
                                           THEN SubSeq(ranked, 2, IF Len(ranked) < 6 THEN Len(ranked) ELSE 6)
                                           ELSE <<>>,
                         should_fly_to |-> FALSE,
                         zoom_level    |-> None])
    /\ UNCHANGED <<request, intent, geocode_calls, landmark, location, fetch, buildings>>
    /\ UNCHANGED <<harnessVars, jobVars>>

\* ------------------------------------------------ specification: router
Viewport == [south |-> 0, north |-> 80, west |-> 0, east |-> 60]

WideViewport == [south |-> 0, north |-> 400, west |-> -200, east |-> 200]

Requests ==
    { [query |-> <<"user text">>, current_bounds |-> b, current_center |-> c] :
         b \in {None, Some(Viewport), Some(WideViewport)}, c \in {None, Some(<<30, 40>>)} }

WeatherIntents ==
    { [action |-> "set_weather", weather_settings |-> w] :
         w \in {[type |-> "rain"], [type |-> "fog"], EmptyDict, Null} }
    \cup { [action |-> "set_weather"] }

TimeIntents ==
    { [action |-> "set_time", time_settings |-> t] :
         t \in {[preset |-> "night"], [preset |-> "dusk"], Null} }
    \cup { [action |-> "set_time"] }

CameraIntents ==
    { [action |-> "camera_control", camera_settings |-> c] :
         c \in {[zoom_delta |-> 2], [zoom_delta |-> -2], [pitch |-> 0], [pitch |-> 60],
                [bearing_delta |-> 90], EmptyDict, Null} }
    \cup { [action |-> "camera_control"] }

DeleteIntents ==
    { [action |-> "delete_building", location_query |-> q] :
         q \in {<<>>, <<"cn tower">>, <<"the", "stadium">>, <<"123 main st">>} }
    \cup { [action |-> "delete_building"] }

QuestionIntents ==
    { [action |-> "question", question_context |-> c] :
         c \in {[subject |-> "building_height", target_name |-> <<"C", "N">>],
                [subject |-> "general", target_name |-> <<>>],
                [subject |-> "general"], Null} }
    \cup { [action |-> "question"] }

NavigateIntents ==
    { [action |-> "navigate", location_query |-> q] : q \in {<<>>, <<"paris">>} }
    \cup { [action |-> "navigate"] }

AttributeValues ==
    { Null, EmptyDict,
      [sort_by |-> "height", building_type |-> "any", limit |-> 5],
      [sort_by |-> "area", limit |-> 2],
      [sort_by |-> "area"],
      [sort_by |-> "underdeveloped"],
      [sort_by |-> "null", limit |-> 1] }

FindIntents ==
    { [action |-> "find_building", location_query |-> q, building_attributes |-> a,
       search_radius_km |-> r] :
         q \in {<<>>, <<"toronto">>}, a \in AttributeValues, r \in {0, 5000} }
    \cup { [action |-> "find_building"] }

AreaIntents ==
    { [action |-> "search_area", location_query |-> <<>>, building_attributes |-> Null],
      [action |-> "search_area", location_query |-> <<"toronto">>,
       building_attributes |-> [sort_by |-> "height", limit |-> 2]],
      [action |-> "dance"],
      [reasoning |-> "no action"] }

Intents ==
    WeatherIntents \cup TimeIntents \cup CameraIntents \cup DeleteIntents
    \cup QuestionIntents \cup NavigateIntents \cup FindIntents \cup AreaIntents

GeocodingResults ==
    { [lat |-> 100, lon |-> 200, display_name |-> <<"cn", "tower", "toronto">>,
       location_type |-> "poi"],
      [lat |-> 100, lon |-> 200, display_name |-> <<"toronto", "canada">>,
       location_type |-> "city"],
      [lat |-> 120, lon |-> 210, display_name |-> <<"high", "park", "toronto">>,
       location_type |-> "poi"],
      [lat |-> 110, lon |-> 220, display_name |-> <<"dundas", "building">>,
       location_type |-> "building"] }

GeocodeOutcomes ==
    { [kind |-> "found", value |-> g] : g \in GeocodingResults }
    \cup { [kind |-> "none"], [kind |-> "timeout"] }

\* Places of the other location types geocode() can return.
LocationTypes ==
    {"administrative", "town", "village", "neighbourhood", "landmark", "amenity", "house",
     "place", "unknown"}

NavigateOutcomes ==
    GeocodeOutcomes
    \cup { [kind |-> "found",
           value |-> [lat |-> 130, lon |-> 230, display_name |-> <<"somewhere">>,
                      location_type |-> t]] : t \in LocationTypes }

BigWay ==
    [type |-> "way", id |-> 10,
     geometry |-> << [lon |-> 0, lat |-> 0], [lon |-> 20, lat |-> 0],
                     [lon |-> 20, lat |-> 20], [lon |-> 0, lat |-> 20] >>,
     tags |-> [building |-> "yes", height |-> <<"3", "0">>]]

SmallWay ==
    [type |-> "way", id |-> 11,
     geometry |-> << [lon |-> 0, lat |-> 0], [lon |-> 10, lat |-> 0],
                     [lon |-> 10, lat |-> 10], [lon |-> 0, lat |-> 10],
                     [lon |-> 0, lat |-> 0] >>,
     tags |-> [building |-> "yes", name |-> <<"c", "n", " ", "t">>]
              @@ ("building:levels" :> <<"3", "0">>)]

TowerNode ==
    [type |-> "node", id |-> 12, lat |-> 40, lon |-> 50,
     tags |-> [man_made |-> "tower", height |-> <<"3", "0", "0">>]]

FeetNode ==
    [type |-> "node", id |-> 13, lat |-> 40, lon |-> 50,
     tags |-> [height |-> <<"3", "0", "f", "t">>]]

MallWay ==
    [type |-> "way", id |-> 15,
     geometry |-> << [lon |-> 30, lat |-> 0], [lon |-> 40, lat |-> 0],
                     [lon |-> 40, lat |-> 10], [lon |-> 30, lat |-> 10] >>,
     tags |-> [building |-> "retail", name |-> <<"m", "a", "l", "l">>]]

ShortWay ==
    [type |-> "way", id |-> 14,
     geometry |-> << [lon |-> 0, lat |-> 0], [lon |-> 10, lat |-> 0] >>,
     tags |-> [building |-> "yes"]]

\* A square building of the given side, its corner at the origin.
SquareWay(id, side) ==
    [type |-> "way", id |-> id,
     geometry |-> << [lon |-> 0, lat |-> 0], [lon |-> side, lat |-> 0],
                     [lon |-> side, lat |-> side], [lon |-> 0, lat |-> side] >>,
     tags |-> [building |-> "yes"]]

\* More buildings than any response lists, not in the order of their size.
SevenWays ==
    << SquareWay(21, 3), SquareWay(22, 9), SquareWay(23, 6), SquareWay(24, 15),
       SquareWay(25, 12), SquareWay(26, 21), SquareWay(27, 18) >>

\* Decoded bodies of an endpoint's answer.
Bodies ==
    { [elements |-> <<>>],
      [elements |-> <<SmallWay, BigWay>>],
      [elements |-> <<BigWay, SmallWay>>],
      [elements |-> <<MallWay, SmallWay>>],
      [elements |-> SevenWays],
      [elements |-> <<SmallWay, TowerNode, BigWay>>],
      [elements |-> <<BigWay, FeetNode>>],
      [elements |-> <<ShortWay>>],
      [remark |-> "runtime error"],
      Null }

Init ==
    /\ pc = "start"
    /\ request \in { Some(r) : r \in Requests }
    /\ intent = None
    /\ geocode_calls = <<>>
    /\ landmark = None
    /\ location = None
    /\ fetch = None
    /\ buildings = <<>>
    /\ response = None
    /\ raised = "none"
    /\ HarnessIdle
    /\ JobsIdle

Next ==
    \/ \E i \in Intents : ParseIntent(i)
    \/ SetWeather
    \/ SetTime
    \/ CameraControl
    \/ DeleteBuilding
    \/ \E o \in GeocodeOutcomes : DeleteGeocoded(o)
    \/ Question
    \/ \E o \in GeocodeOutcomes : QuestionGeocoded(o)
    \/ QuestionRespond
    \/ Navigate
    \/ \E o \in NavigateOutcomes : NavigateGeocoded(o)
    \/ FindBuilding
    \/ \E o \in GeocodeOutcomes : FindLandmarkGeocoded(o)
    \/ \E o \in GeocodeOutcomes : FindLocationGeocoded(o)
    \/ FindRespond
    \/ SearchArea
    \/ SearchAreaRespond
    \/ AttemptStart
    \/ \E status \in {"client_error", "timeout"} : AttemptFails(status)
    \/ \E body \in Bodies : AttemptSucceeds(body)
    \/ AttemptBadBody
    \/ FetchReturn

Spec == Init /\ [][Next]_vars

\* ------------------------------------------ specification: bounding boxes
SouthValues == {0, 40, 4000, 8070, Round(436500), Round(-337000)}

LatSpans == {-10, 0, 60, 100, 101, 150, 3000}

WestValues == {0, 1200, Round(-793800)}

LngSpans == {50, 100, 130, 2000}

ClampCalls ==
    { [fn |-> "clamp",
       bbox |-> [south |-> s, north |-> Round(s + ls), west |-> w, east |-> Round(w + gs)]] :
         s \in SouthValues, ls \in LatSpans, w \in WestValues, gs \in LngSpans }

CenterLats == {0, 100, Round(450000), Round(-450000), Round(600000), Round(890000)}

CenterLons == {0, 1200, Round(-793800)}

Radii == {200, 1000, 5000, 10000, 20000}

ExpandCalls ==
    { [fn |-> "expand", center |-> <<lon, lat>>, radius_km |-> r] :
         lon \in CenterLons, lat \in CenterLats, r \in Radii }

InitBBox ==
    /\ call \in ClampCalls \cup ExpandCalls
    /\ result = None
    /\ RouterIdle
    /\ JobsIdle

\* One evaluation of the clamp on the given box.
Clamp ==
    /\ call.fn = "clamp"
    /\ result = None
    /\ result' = Some(ClampBBox(call.bbox))
    /\ UNCHANGED call
    /\ UNCHANGED <<routerVars, jobVars>>

\* The clamped box is handed to the clamp again.
ClampAgain ==
    /\ call.fn = "clamp"
    /\ IsSome(result)
    /\ call' = [call EXCEPT !.bbox = Get(result)]
    /\ result' = Some(ClampBBox(Get(result)))
    /\ UNCHANGED <<routerVars, jobVars>>

Expand ==
    /\ call.fn = "expand"
    /\ result = None
    /\ result' = Some(expand_bbox_from_center(call.center, call.radius_km))
    /\ UNCHANGED call
    /\ UNCHANGED <<routerVars, jobVars>>

NextBBox == Clamp \/ ClampAgain \/ Expand

SpecBBox == InitBBox /\ [][NextBBox]_vars

\* ------------------------------------------- specification: normalizer
SeqsUpTo(S, n) == UNION { [1..k -> S] : k \in 0..n }

GoodVertices ==
    { [lon |-> 0, lat |-> 0], [lon |-> 1, lat |-> 0],
      [lon |-> 1, lat |-> 1], [lon |-> 0, lat |-> 1] }

\* A vertex record without its latitude.
BrokenVertex == [lon |-> 1]

WayElements ==
    { [type |-> "way", id |-> 1, geometry |-> g, tags |-> [building |-> "yes"]] :
         g \in SeqsUpTo(GoodVertices \cup {BrokenVertex}, MaxVertices) }
    \cup { [type |-> "way", id |-> 1, tags |-> [building |-> "yes"]] }

NodeHeights ==
    { <<>>, <<"3", "0">>, <<"3", "0", "0">>, <<"3", "0", "0", " ", "m">>,
      <<"3", "0", "f", "t">>, <<"m">>, <<"-", "3">> }

NodeTags ==
    { [height |-> h] : h \in NodeHeights }
    \cup { [man_made |-> "tower", height |-> h] : h \in NodeHeights }
    \cup { [tourism |-> "attraction", height |-> h] : h \in NodeHeights }
    \cup { [man_made |-> "mast"], [man_made |-> "tower"], EmptyTags }

NodeElements ==
    { [type |-> "node", id |-> 2, lat |-> 20, lon |-> 30, tags |-> t] : t \in NodeTags }
    \cup { [type |-> "node", id |-> 2, lon |-> 30, tags |-> [man_made |-> "tower"]],
           [type |-> "node", id |-> 2, lat |-> 20, lon |-> 30] }

MemberGeometries ==
    { <<>>,
      << [lon |-> 0, lat |-> 0], [lon |-> 1, lat |-> 0] >>,
      << [lon |-> 1, lat |-> 0], [lon |-> 1, lat |-> 1] >>,
      << [lon |-> 0, lat |-> 0], [lon |-> 1, lat |-> 0], [lon |-> 1, lat |-> 1] >>,
      << [lon |-> 0, lat |-> 0], [lon |-> 1, lat |-> 0], [lon |-> 0, lat |-> 0] >>,
      << [lon |-> 1, lat |-> 1], [lon |-> 0, lat |-> 1], [lon |-> 0, lat |-> 0],
         [lon |-> 1, lat |-> 1] >>,
      << [lon |-> 0, lat |-> 0], BrokenVertex, [lon |-> 1, lat |-> 1] >> }

Members ==
    { [type |-> t, role |-> r, geometry |-> g] :
         t \in {"way", "node"}, r \in {"outer", "inner"}, g \in MemberGeometries }
    \cup { [type |-> "node", role |-> "outer"] }

RelationElements ==
    { [type |-> "relation", id |-> 3, members |-> m, tags |-> [building |-> "yes"]] :
         m \in SeqsUpTo(Members, MaxMembers) }
    \cup { [type |-> "relation", id |-> 3] }

\* Elements that are paired with one another in a response of two elements.
PairedElements ==
    { [type |-> "way", id |-> 1,
       geometry |-> << [lon |-> 0, lat |-> 0], [lon |-> 1, lat |-> 0],
                       [lon |-> 1, lat |-> 1], [lon |-> 0, lat |-> 1] >>,
       tags |-> [building |-> "yes"]],
      [type |-> "way", id |-> 4,
       geometry |-> << [lon |-> 0, lat |-> 0], [lon |-> 1, lat |-> 0] >>,
       tags |-> [building |-> "yes"]],
      [type |-> "way", id |-> 5,
       geometry |-> << [lon |-> 0, lat |-> 0], BrokenVertex, [lon |-> 1, lat |-> 1] >>,
       tags |-> [building |-> "yes"]],
      [type |-> "node", id |-> 2, lat |-> 20, lon |-> 30, tags |-> [man_made |-> "tower"]],
      [type |-> "node", id |-> 6, lat |-> 20, lon |-> 30,
       tags |-> [height |-> <<"3", "0", "f", "t">>]],
      [type |-> "relation", id |-> 3,
       members |-> << [type |-> "way", role |-> "outer",
                       geometry |-> << [lon |-> 0, lat |-> 0], [lon |-> 1, lat |-> 0],
                                       [lon |-> 1, lat |-> 1] >>] >>,
       tags |-> [building |-> "yes"]],
      [type |-> "area", id |-> 7] }

NormalizeCalls ==
    { [fn |-> "normalize", elements |-> <<e>>] :
         e \in WayElements \cup NodeElements \cup RelationElements }
    \cup { [fn |-> "normalize", elements |-> <<e1, e2>>] :
             e1 \in PairedElements, e2 \in PairedElements }
    \cup { [fn |-> "normalize", elements |-> <<>>] }

InitNorm ==
    /\ call \in NormalizeCalls
    /\ result = None
    /\ RouterIdle
    /\ JobsIdle

\* The loop over the elements of a decoded response.
Normalize ==
    /\ call.fn = "normalize"
    /\ result = None
    /\ result' = Some(NormalizeElements(call.elements))
    /\ UNCHANGED call
    /\ UNCHANGED <<routerVars, jobVars>>

NextNorm == Normalize

SpecNorm == InitNorm /\ [][NextNorm]_vars

\* ---------------------------------------------- specification: metrics
HeightChars == {"0", "3", "-", "m", "f", "t", "F", " "}

HeightTexts(n) == SeqsUpTo(HeightChars, n) \cup { <<"n", "a", "n">> }

LevelsTexts == { <<"1", "0">>, <<"3">>, <<"1", "f">> }

UnitSquare == << <<0, 0>>, <<1, 0>>, <<1, 1>>, <<0, 1>>, <<0, 0>> >>

MetricsProperties(heights) ==
    { [height |-> h] : h \in heights }
    \cup { ("building:levels" :> l) : l \in LevelsTexts }
    \cup { [height |-> h] @@ ("building:levels" :> l) : h \in heights, l \in LevelsTexts }
    \cup { EmptyTags }

\* A coordinate whose square is beyond the exact range of the significand.
BigCoordinate == Pow2((MantBits + 2) \div 2)

\* Vertices of the rings whose area is computed.
RingVertices ==
    { <<0, 0>>, <<1, 0>>, <<1, 1>>, <<0, 1>>, <<BigCoordinate, BigCoordinate>> }

\* Rings of 3 to MaxVertices vertices, each also closed by its first vertex.
MetricsRings ==
    LET open == { r \in SeqsUpTo(RingVertices, MaxVertices) : Len(r) >= 3 }
    IN  open \cup { r \o <<r[1]>> : r \in open }

MetricsCalls(heights) ==
    { [fn |-> "metrics",
       feature |-> [type |-> "Feature", id |-> 1,
                    geometry |-> [type |-> "Polygon", coordinates |-> <<UnitSquare>>],
                    properties |-> props]] : props \in MetricsProperties(heights) }
    \cup
    { [fn |-> "metrics",
       feature |-> [type |-> "Feature", id |-> 1,
                    geometry |-> [type |-> "Polygon", coordinates |-> <<ring>>],
                    properties |-> EmptyTags]] : ring \in MetricsRings }

InitMetrics ==
    /\ call \in MetricsCalls(HeightTexts(MaxTagLen))
    /\ result = None
    /\ RouterIdle
    /\ JobsIdle

Metrics ==
    /\ call.fn = "metrics"
    /\ result = None
    /\ result' = Some(calculate_building_features(call.feature))
    /\ UNCHANGED call
    /\ UNCHANGED <<routerVars, jobVars>>

NextMetrics == Metrics

SpecMetrics == InitMetrics /\ [][NextMetrics]_vars

\* ------------------------------------------------ specification: ranker
Square(side) ==
    << <<0, 0>>, <<side, 0>>, <<side, side>>, <<0, side>>, <<0, 0>> >>

PolygonFeature(id, side, tags) ==
    [type |-> "Feature", id |-> id,
     geometry |-> [type |-> "Polygon", coordinates |-> <<Square(side)>>],
     properties |-> tags]

\* Features to rank: two that agree in area and height, one whose height
\* tag reads nan, one measured in levels, a tall small one, a point and a
\* feature without geometry.
RankFeatures ==
    { PolygonFeature(1, 2, [height |-> <<"3", "0">>]),
      PolygonFeature(2, 2, [height |-> <<"3", "0">>]),
      PolygonFeature(3, 1, [height |-> <<"n", "a", "n">>]),
      PolygonFeature(4, 3, ("building:levels" :> <<"3">>)),
      PolygonFeature(5, 1, [height |-> <<"3", "0", "0">>]),
      [type |-> "Feature", id |-> 6, geometry |-> [type |-> "Point"], properties |-> EmptyTags],
      [type |-> "Feature", id |-> 7, properties |-> EmptyTags] }

RankAttributes ==
    { Null, EmptyDict, [sort_by |-> "height"], [sort_by |-> "area"],
      [sort_by |-> "underdeveloped"], [sort_by |-> "name"], [limit |-> 3] }

RankCalls ==
    { [fn |-> "rank", features |-> fs, building_attributes |-> a] :
         fs \in SeqsUpTo(RankFeatures, MaxRanked), a \in RankAttributes }

InitRank ==
    /\ call \in RankCalls
    /\ result = None
    /\ RouterIdle
    /\ JobsIdle

Rank ==
    /\ call.fn = "rank"
    /\ result = None
    /\ result' = Some(rank_buildings(call.features, call.building_attributes))
    /\ UNCHANGED call
    /\ UNCHANGED <<routerVars, jobVars>>

NextRank == Rank

SpecRank == InitRank /\ [][NextRank]_vars

\* ------------------------------------------------ fallback intent parser
\* openai_service.py _fallback_intent_parse.  A query is a sequence of
\* fragments of text ("go to", " ", "tall", "est", ...); a keyword is the
\* sequence of the fragments that spell it, and "keyword in query" is
\* Contains.  Two keywords of which one holds the other are spelt with a
\* common fragment: "tallest" is "tall" followed by "est".  The reasoning
\* text of the intents is left out.
AnyIn(text, keywords) == \E k \in keywords : Contains(text, k)

\* text.split(pat, 1)[1], pat in text: what follows the first pat
RECURSIVE AfterFirst(_, _)
AfterFirst(text, pat) ==
    IF StartsWith(text, pat) THEN Drop(text, Len(pat)) ELSE AfterFirst(Tail(text), pat)

\* The lists that are gone through in order.
DeletePhrases == << <<"delete">>, <<"remove">>, <<"erase">> >>

DeletePrefixes ==
    << <<"the">>, <<"this">>, <<"that">>, <<"building", " ", "at">>, <<"building">> >>

QuestionLandmarks ==
    << <<"cn", " ", "tower">>, <<"eiffel", " ", "tower">>, <<"empire", " ", "state">>,
       <<"burj", " ", "khalifa">>, <<"big", " ", "ben">> >>

NavigationPhrases == << <<"take me to">>, <<"go to">>, <<"navigate to">>, <<"fly to">> >>

BuildingSearchWords == { <<"tall", "est">>, <<"biggest">>, <<"underdeveloped">> }

\* The first entry of the list that the text holds, 0 when it holds none.
RECURSIVE FirstIn(_, _, _)
FirstIn(text, list, k) ==
    IF k > Len(list) THEN 0
    ELSE IF Contains(text, list[k]) THEN k
    ELSE FirstIn(text, list, k + 1)

\* "for prefix in [...]: if location.startswith(prefix): location =
\* location[len(prefix):].strip()", from the k-th prefix on.
RECURSIVE CutPrefixes(_, _)
CutPrefixes(loc, k) ==
    IF k > Len(DeletePrefixes) THEN loc
    ELSE IF StartsWith(loc, DeletePrefixes[k])
    THEN CutPrefixes(Strip(Drop(loc, Len(DeletePrefixes[k]))), k + 1)
    ELSE CutPrefixes(loc, k + 1)

\* The loop over the delete phrases from the k-th on; loc is the value of location
\* so far, Null for None.  It stops at the first phrase that leaves a
\* location that is not empty.
RECURSIVE DeleteLocation(_, _, _)
DeleteLocation(query_lower, k, loc) ==
    IF k > Len(DeletePhrases) THEN loc
    ELSE IF Contains(query_lower, DeletePhrases[k])
    THEN LET cut == CutPrefixes(Strip(AfterFirst(query_lower, DeletePhrases[k])), 1)
         IN  IF cut # <<>> THEN cut ELSE DeleteLocation(query_lower, k + 1, cut)
    ELSE DeleteLocation(query_lower, k + 1, loc)

\* The building search with the area keywords tried before the height ones.
BuildingSearchIntent_area_first(query_lower) ==
    LET sort_by ==
            IF AnyIn(query_lower, { <<"biggest">>, <<"largest">>, <<"footprint">>, <<"area">> })
            THEN "area"
            ELSE IF AnyIn(query_lower,
                          { <<"tall", "est">>, <<"tall">>, <<"highest">>, <<"height">> })
            THEN "height"
            ELSE IF AnyIn(query_lower,
                          { <<"underdeveloped">>, <<"low-rise">>, <<"short", " ", "building">> })
            THEN "underdeveloped"
            ELSE "null"
    IN  IF sort_by # "null"
        THEN [action              |-> "find_building",
              location_query      |-> Null,
              building_attributes |-> [sort_by |-> sort_by, building_type |-> "any", limit |-> 5],
              search_radius_km    |-> Null]
        ELSE [action              |-> "search_area",
              location_query      |-> Null,
              building_attributes |-> Null,
              search_radius_km    |-> Null]

\* The "Check for building search" part and the default.
BuildingSearchIntent(query_lower) ==
    LET sort_by ==
            IF AnyIn(query_lower, { <<"tall", "est">>, <<"tall">>, <<"highest">>, <<"height">> })
            THEN "height"
            ELSE IF AnyIn(query_lower,
                          { <<"biggest">>, <<"largest">>, <<"footprint">>, <<"area">> })
            THEN "area"
            ELSE IF AnyIn(query_lower,
                          { <<"underdeveloped">>, <<"low-rise">>, <<"short", " ", "building">> })
            THEN "underdeveloped"
            ELSE "null"
    IN  IF sort_by # "null"
        THEN [action              |-> "find_building",
              location_query      |-> Null,
              building_attributes |-> [sort_by |-> sort_by, building_type |-> "any", limit |-> 5],
              search_radius_km    |-> Null]
        ELSE [action              |-> "search_area",
              location_query      |-> Null,
              building_attributes |-> Null,
              search_radius_km    |-> Null]

\* The "Check for navigation intent" part: the first phrase of the list
\* that the query holds either returns the navigation or breaks the loop.
NavigationIntent(query_lower) ==
    LET k        == FirstIn(query_lower, NavigationPhrases, 1)
        loc      == Strip(AfterFirst(query_lower, NavigationPhrases[k]))
    IN  IF k # 0 /\ ~AnyIn(loc, BuildingSearchWords)
        THEN [action              |-> "navigate",
              location_query      |-> loc,
              building_attributes |-> Null,
              search_radius_km    |-> Null]
        ELSE BuildingSearchIntent(query_lower)

fallback_intent_parse(query) ==
    LET query_lower == Lower(query)
    IN  IF AnyIn(query_lower, { <<"rain">>, <<"rain", "y">>, <<"rain", "ing">> })
        THEN [action |-> "set_weather", weather_settings |-> [type |-> "rain"]]
        ELSE IF AnyIn(query_lower, { <<"snow">>, <<"snow", "y">>, <<"snow", "ing">> })
        THEN [action |-> "set_weather", weather_settings |-> [type |-> "snow"]]
        ELSE IF AnyIn(query_lower,
                      { <<"clear", " ", "weather">>, <<"stop", " ", "rain">>, <<"sunny">>,
                        <<"clear", " ", "sky">> })
        THEN [action |-> "set_weather", weather_settings |-> [type |-> "clear"]]
        ELSE IF AnyIn(query_lower, { <<"night">>, <<"dark">>, <<"evening">>, <<"nite">> })
        THEN [action |-> "set_time", time_settings |-> [preset |-> "night"]]
        ELSE IF AnyIn(query_lower, { <<"day">>, <<"day", "time">>, <<"morning">>, <<"bright">> })
                /\ ~Contains(query_lower, <<"what">>)
        THEN [action |-> "set_time", time_settings |-> [preset |-> "day"]]
        ELSE IF Contains(query_lower, <<"zoom", " ", "in">>)
        THEN [action |-> "camera_control", camera_settings |-> [zoom_delta |-> 2]]
        ELSE IF Contains(query_lower, <<"zoom", " ", "out">>)
        THEN [action |-> "camera_control", camera_settings |-> [zoom_delta |-> -2]]
        ELSE IF AnyIn(query_lower,
                      { <<"from", " ", "above">>, <<"top", " ", "down">>, <<"bird's", " ", "eye">>,
                        <<"aerial">>, <<"overhead">> })
        THEN [action |-> "camera_control", camera_settings |-> [pitch |-> 0]]
        ELSE IF Contains(query_lower, <<"tilt">>)
        THEN [action |-> "camera_control", camera_settings |-> [pitch |-> 60]]
        ELSE IF FirstIn(query_lower, DeletePhrases, 1) # 0
        THEN LET loc == DeleteLocation(query_lower, 1, Null)
             IN  [action         |-> "delete_building",
                  location_query |-> IF loc = <<>> THEN Null ELSE loc]
        ELSE IF \E q \in { <<"how">>, <<"what">>, <<"when">>, <<"who">>, <<"why">>, <<"is", " ">>,
                           <<"are", " ">>, <<"does", " ">>, <<"do", " ">>, <<"can", " ">> } :
                    StartsWith(query_lower, q)
        THEN LET k == FirstIn(query_lower, QuestionLandmarks, 1)
                 \* landmark.title()
                 Title(name) ==
                     CASE name = <<"cn", " ", "tower">>     -> <<"Cn", " ", "Tower">>
                       [] name = <<"eiffel", " ", "tower">> -> <<"Eiffel", " ", "Tower">>
                       [] name = <<"empire", " ", "state">> -> <<"Empire", " ", "State">>
                       [] name = <<"burj", " ", "khalifa">> -> <<"Burj", " ", "Khalifa">>
                       [] OTHER                             -> <<"Big", " ", "Ben">>
             IN  [action           |-> "question",
                  question_context |->
                      [subject     |-> "general",
                       target_name |-> IF k = 0 THEN Null ELSE Title(QuestionLandmarks[k])]]
        ELSE NavigationIntent(query_lower)

\* The fragments that the queries of the parser are made of.
Fragments ==
    { "take me to", "go to", " ", "P", "vale", "sunny", "tall", "est", "biggest", "area",
      "can", "delete", "underdeveloped" }

ParseCalls == { [fn |-> "parse", query |-> q] : q \in SeqsUpTo(Fragments, MaxFragments) }

InitParse ==
    /\ call \in ParseCalls
    /\ result = None
    /\ RouterIdle
    /\ JobsIdle

Parse ==
    /\ call.fn = "parse"
    /\ result = None
    /\ result' = Some(fallback_intent_parse(call.query))
    /\ UNCHANGED call
    /\ UNCHANGED <<routerVars, jobVars>>

SpecParse == InitParse /\ [][Parse]_vars

\* --------------------------------------------------------- generation jobs
\* routes/generation.py.  A job store is the list of its jobs in insertion
\* order, a job being [job_id, status, progress]; the messages and results of
\* the jobs are left out.  The handlers are coroutines on one event loop: an
\* action is the code from one await to the next.  A service call that is
\* awaited either returns (ok) or raises.
JobIds == 1..MaxJobs

\* job_id in store
HasJob(store, job_id) == \E k \in DOMAIN store : store[k].job_id = job_id

\* store[job_id] = job: a key that is there keeps its place
RECURSIVE SetJob(_, _)
SetJob(store, job) ==
    IF store = <<>> THEN <<job>>
    ELSE IF Head(store).job_id = job.job_id THEN <<job>> \o Tail(store)
    ELSE <<Head(store)>> \o SetJob(Tail(store), job)

\* uuid.uuid4().hex: an id that no job was started with.  The ids being
\* alike, it is the least of them.
Fresh(job_id) ==
    LET used == { tasks[k].job_id : k \in DOMAIN tasks }
    IN  /\ job_id \notin used
        /\ \A other \in JobIds \ used : job_id <= other

generate_architecture_async ==
    /\ Len(tasks) < MaxJobs
    /\ \E job_id \in JobIds :
          /\ Fresh(job_id)
          /\ tasks' = Append(tasks, [kind |-> "pipeline", job_id |-> job_id, pc |-> "queued"])
          /\ reply' = [endpoint |-> "generate-architecture-async", status_code |-> 200,
                       job_id |-> job_id, status |-> "started"]
          /\ answered' = answered \cup
                 { [endpoint |-> "generate-architecture-async", job_id |-> job_id] }
    /\ UNCHANGED <<jobs, three_d_jobs, image_jobs>>
    /\ UNCHANGED <<harnessVars, routerVars>>

\* The task of a pipeline: from its start to the first await, and from one
\* await to the next.  jobs[job_id] of a job that was deleted raises KeyError,
\* in the except clause too, and that ends the task.
run_pipeline_async ==
    /\ \E i \in DOMAIN tasks :
          LET job_id == tasks[i].job_id
          IN  /\ tasks[i].kind = "pipeline"
              /\ \/ /\ tasks[i].pc = "queued"
                    /\ jobs' = SetJob(jobs, [job_id |-> job_id, status |-> "cleaning_prompt",
                                             progress |-> 10])
                    /\ tasks' = [tasks EXCEPT ![i].pc = "clean_prompt"]
                 \/ /\ tasks[i].pc \in {"clean_prompt", "generate_images", "generate_3d"}
                    /\ \E ok \in BOOLEAN :
                          LET at    == tasks[i].pc
                              stage ==
                                  CASE at = "clean_prompt" ->
                                         [status |-> "generating_images", progress |-> 30,
                                          pc |-> "generate_images"]
                                    [] at = "generate_images" ->
                                         [status |-> "generating_3d", progress |-> 60,
                                          pc |-> "generate_3d"]
                                    [] at = "generate_3d" ->
                                         [status |-> "completed", progress |-> 100, pc |-> "done"]
                          IN  IF ~HasJob(jobs, job_id)
                              THEN /\ tasks' = [tasks EXCEPT ![i].pc = "KeyError"]
                                   /\ UNCHANGED jobs
                              ELSE IF ok
                              THEN /\ jobs' = SetJob(jobs, [job_id |-> job_id,
                                                            status |-> stage.status,
                                                            progress |-> stage.progress])
                                   /\ tasks' = [tasks EXCEPT ![i].pc = stage.pc]
                              ELSE /\ jobs' = SetJob(jobs, [job_id |-> job_id,
                                                            status |-> "failed", progress |-> 0])
                                   /\ tasks' = [tasks EXCEPT ![i].pc = "done"]
    /\ UNCHANGED <<three_d_jobs, image_jobs, answered, reply>>
    /\ UNCHANGED <<harnessVars, routerVars>>

get_job_status ==
    /\ \E job_id \in JobIds :
          reply' = IF HasJob(jobs, job_id)
                   THEN [endpoint |-> "job", status_code |-> 200, job_id |-> job_id,
                         job |-> SelectSeq(jobs, LAMBDA j : j.job_id = job_id)[1]]
                   ELSE [endpoint |-> "job", status_code |-> 404, job_id |-> job_id]
    /\ UNCHANGED <<jobs, three_d_jobs, image_jobs, tasks, answered>>
    /\ UNCHANGED <<harnessVars, routerVars>>

\* The handler of a preview: to its first await, and from one await to the
\* next.  The job is deleted when the images are there and on any exception,
\* the KeyError of a cancelled job included.
generate_preview ==
    /\ \/ /\ Len(tasks) < MaxJobs
          /\ \E job_id \in JobIds :
                /\ Fresh(job_id)
                /\ image_jobs' = SetJob(image_jobs, [job_id |-> job_id, status |-> "generating",
                                                     progress |-> 10])
                /\ tasks' = Append(tasks, [kind |-> "preview", job_id |-> job_id,
                                           pc |-> "clean_prompt"])
          /\ UNCHANGED reply
       \/ \E i \in DOMAIN tasks :
             LET job_id == tasks[i].job_id
             IN  /\ tasks[i].kind = "preview"
                 /\ \E ok \in BOOLEAN :
                       \/ /\ tasks[i].pc = "clean_prompt"
                          /\ ok /\ HasJob(image_jobs, job_id)
                          /\ image_jobs' = SetJob(image_jobs,
                                                  [job_id |-> job_id, status |-> "generating",
                                                   progress |-> 30])
                          /\ tasks' = [tasks EXCEPT ![i].pc = "generate_images"]
                          /\ UNCHANGED reply
                       \/ /\ tasks[i].pc \in {"clean_prompt", "generate_images"}
                          /\ tasks[i].pc = "clean_prompt" => ~(ok /\ HasJob(image_jobs, job_id))
                          /\ image_jobs' = SelectSeq(image_jobs, LAMBDA j : j.job_id # job_id)
                          /\ tasks' = [tasks EXCEPT ![i].pc = "done"]
                          /\ reply' = [endpoint |-> "generate-preview", job_id |-> job_id,
                                       status_code |-> IF ok /\ HasJob(image_jobs, job_id)
                                                       THEN 200 ELSE 500]
    /\ UNCHANGED <<jobs, three_d_jobs, answered>>
    /\ UNCHANGED <<harnessVars, routerVars>>

\* The task of a 3D generation.  Its first statement assigns
\* three_d_jobs[job_id], whether the job is still there or not.
run_3d_generation ==
    /\ \E i \in DOMAIN tasks :
          LET job_id == tasks[i].job_id
          IN  /\ tasks[i].kind = "3d"
              /\ \/ /\ tasks[i].pc = "queued"
                    /\ three_d_jobs' = SetJob(three_d_jobs,
                                              [job_id |-> job_id, status |-> "generating",
                                               progress |-> 30])
                    /\ tasks' = [tasks EXCEPT ![i].pc = "generate_3d"]
                 \/ /\ tasks[i].pc = "generate_3d"
                    /\ \E ok \in BOOLEAN :
                          IF ~HasJob(three_d_jobs, job_id)
                          THEN /\ tasks' = [tasks EXCEPT ![i].pc = "KeyError"]
                               /\ UNCHANGED three_d_jobs
                          ELSE /\ three_d_jobs' =
                                      SetJob(three_d_jobs,
                                             IF ok THEN [job_id |-> job_id, status |-> "completed",
                                                         progress |-> 100]
                                             ELSE [job_id |-> job_id, status |-> "failed",
                                                   progress |-> 0])
                               /\ tasks' = [tasks EXCEPT ![i].pc = "done"]
    /\ UNCHANGED <<jobs, image_jobs, answered, reply>>
    /\ UNCHANGED <<harnessVars, routerVars>>

\* request.job_id is the caller's; a 3D generation is started once for an id.
start_3d_generation ==
    /\ Len(tasks) < MaxJobs
    /\ \E job_id \in JobIds :
          /\ \A k \in DOMAIN tasks : tasks[k].kind = "3d" => tasks[k].job_id # job_id
          /\ three_d_jobs' = SetJob(three_d_jobs, [job_id |-> job_id, status |-> "pending",
                                                   progress |-> 0])
          /\ tasks' = Append(tasks, [kind |-> "3d", job_id |-> job_id, pc |-> "queued"])
          /\ reply' = [endpoint |-> "start-3d", status_code |-> 200, job_id |-> job_id,
                       status |-> "started"]
    /\ UNCHANGED <<jobs, image_jobs, answered>>
    /\ UNCHANGED <<harnessVars, routerVars>>

get_3d_job_status ==
    /\ \E job_id \in JobIds :
          reply' = IF HasJob(three_d_jobs, job_id)
                   THEN [endpoint |-> "3d-job", status_code |-> 200, job_id |-> job_id,
                         job |-> SelectSeq(three_d_jobs, LAMBDA j : j.job_id = job_id)[1]]
                   ELSE [endpoint |-> "3d-job", status_code |-> 404, job_id |-> job_id]
    /\ UNCHANGED <<jobs, three_d_jobs, image_jobs, tasks, answered>>
    /\ UNCHANGED <<harnessVars, routerVars>>

\* "for job_id, job in store.items(): active_jobs.append(ActiveJob(...))",
\* store being the jobs that pass the test of the loop
RECURSIVE Collect(_, _)
Collect(store, type) ==
    IF store = <<>> THEN <<>>
    ELSE << [job_id |-> Head(store).job_id, type |-> type,
             status |-> Head(store).status, progress |-> Head(store).progress] >>
         \o Collect(Tail(store), type)

\* The listing without active_jobs.sort(key=lambda j: j.progress).
list_active_jobs_unsorted ==
    /\ LET active_jobs ==
               Collect(image_jobs, "image")
               \o Collect(SelectSeq(three_d_jobs,
                                    LAMBDA j : j.status \in {"pending", "generating"}), "3d")
               \o Collect(SelectSeq(jobs, LAMBDA j : j.status \notin {"completed", "failed"}),
                          "pipeline")
           count(type) == Len(SelectSeq(active_jobs, LAMBDA j : j.type = type))
       IN  reply' = [endpoint      |-> "jobs",
                     status_code   |-> 200,
                     total_active  |-> Len(active_jobs),
                     image_jobs    |-> count("image"),
                     three_d_jobs  |-> count("3d"),
                     pipeline_jobs |-> count("pipeline"),
                     jobs          |-> active_jobs]
    /\ UNCHANGED <<jobs, three_d_jobs, image_jobs, tasks, answered>>
    /\ UNCHANGED <<harnessVars, routerVars>>

list_active_jobs ==
    /\ LET active_jobs ==
               Collect(image_jobs, "image")
               \o Collect(SelectSeq(three_d_jobs,
                                    LAMBDA j : j.status \in {"pending", "generating"}), "3d")
               \o Collect(SelectSeq(jobs, LAMBDA j : j.status \notin {"completed", "failed"}),
                          "pipeline")
           count(type) == Len(SelectSeq(active_jobs, LAMBDA j : j.type = type))
       IN  reply' = [endpoint      |-> "jobs",
                     status_code   |-> 200,
                     total_active  |-> Len(active_jobs),
                     image_jobs    |-> count("image"),
                     three_d_jobs  |-> count("3d"),
                     pipeline_jobs |-> count("pipeline"),
                     jobs          |-> SortAscending(active_jobs, "progress")]
    /\ UNCHANGED <<jobs, three_d_jobs, image_jobs, tasks, answered>>
    /\ UNCHANGED <<harnessVars, routerVars>>

cancel_job ==
    /\ \E job_id \in JobIds :
          LET job(store)     == SelectSeq(store, LAMBDA j : j.job_id = job_id)[1]
              without(store) == SelectSeq(store, LAMBDA j : j.job_id # job_id)
              three_d  == /\ HasJob(three_d_jobs, job_id)
                          /\ job(three_d_jobs).status \in {"pending", "generating"}
              image    == HasJob(image_jobs, job_id)
              pipeline == /\ HasJob(jobs, job_id)
                          /\ job(jobs).status \notin {"completed", "failed"}
              job_type == IF pipeline THEN "pipeline" ELSE IF image THEN "image" ELSE "3d"
          IN  /\ three_d_jobs' = IF three_d THEN without(three_d_jobs) ELSE three_d_jobs
              /\ image_jobs' = IF image THEN without(image_jobs) ELSE image_jobs
              /\ jobs' = IF pipeline THEN without(jobs) ELSE jobs
              /\ IF three_d \/ image \/ pipeline
                 THEN /\ reply' = [endpoint |-> "cancel", status_code |-> 200,
                                   status |-> "cancelled", job_id |-> job_id, type |-> job_type]
                      /\ answered' = answered \cup
                             { [endpoint |-> "cancel", job_id |-> job_id, type |-> job_type] }
                 ELSE /\ reply' = [endpoint |-> "cancel", status_code |-> 404, job_id |-> job_id]
                      /\ UNCHANGED answered
    /\ UNCHANGED tasks
    /\ UNCHANGED <<harnessVars, routerVars>>

cleanup_finished_jobs ==
    /\ LET finished(j) == j.status \in {"completed", "failed"}
           three_d_to_delete == SelectSeq(three_d_jobs, finished)
           pipeline_to_delete == SelectSeq(jobs, finished)
       IN  /\ three_d_jobs' = SelectSeq(three_d_jobs, LAMBDA j : ~finished(j))
           /\ jobs' = SelectSeq(jobs, LAMBDA j : ~finished(j))
           /\ reply' = [endpoint |-> "cleanup", status_code |-> 200, status |-> "cleaned",
                        three_d_jobs_removed |-> Len(three_d_to_delete),
                        pipeline_jobs_removed |-> Len(pipeline_to_delete)]
           /\ answered' = answered \cup
                  { [endpoint |-> "cleanup", job_id |-> pipeline_to_delete[k].job_id] :
                       k \in DOMAIN pipeline_to_delete }
    /\ UNCHANGED <<image_jobs, tasks>>
    /\ UNCHANGED <<harnessVars, routerVars>>

\* The stores are empty when the module is loaded.
InitJobs ==
    /\ JobsIdle
    /\ HarnessIdle
    /\ RouterIdle

NextJobs ==
    \/ generate_architecture_async
    \/ run_pipeline_async
    \/ get_job_status
    \/ generate_preview
    \/ run_3d_generation
    \/ start_3d_generation
    \/ get_3d_job_status
    \/ list_active_jobs
    \/ cancel_job
    \/ cleanup_finished_jobs

SpecJobs == InitJobs /\ [][NextJobs]_vars

\* ------------------------------------------------------- claims: C8, C9
\* The box passes the size test of the clamp on both axes.
WithinCap(b) ==
    /\ FSub(b.north, b.south) <= max_bbox_size
    /\ FSub(b.east, b.west) <= max_bbox_size

\* C8 as stated: the clamp is idempotent, the spans of every clamped box
\* are at most the 0.01 degree cap, and a box within the cap is unchanged.
C8_AsStated ==
    (call.fn = "clamp" /\ IsSome(result)) =>
        /\ ClampBBox(Get(result)) = Get(result)
        /\ Get(result).north - Get(result).south <= max_bbox_size
        /\ Get(result).east - Get(result).west <= max_bbox_size
        /\ (WithinCap(call.bbox) => Get(result) = call.bbox)

\* C8 (amended): a box within the cap on both axes is returned unchanged;
\* any other box is replaced by one whose spans equal the cap up to the
\* rounding of its corners (they differ from 0.01 by at most one unit in
\* the last place of the corner coordinates); clamping a clamped box
\* changes nothing whenever the clamped box is within the cap.
C8_Clamp ==
    (call.fn = "clamp" /\ IsSome(result)) =>
        LET b == call.bbox
            c == Get(result)
        IN  /\ WithinCap(b) => c = b
            /\ ~WithinCap(b) =>
                  /\ Abs((c.north - c.south) - max_bbox_size)
                        <= Max(Ulp(c.north), Ulp(c.south))
                  /\ Abs((c.east - c.west) - max_bbox_size)
                        <= Max(Ulp(c.east), Ulp(c.west))
            /\ WithinCap(c) => ClampBBox(c) = c

\* An oversize box has been clamped to a different box.
C8_Witness ==
    /\ call.fn = "clamp"
    /\ IsSome(result)
    /\ ~WithinCap(call.bbox)
    /\ Get(result) # call.bbox
    /\ WithinCap(Get(result))

\* C9 as stated: for r > 0 and |lat| < 90 the box has south < north and
\* west < east and the given point is its midpoint.
C9_AsStated ==
    (call.fn = "expand" /\ IsSome(result)) =>
        LET b == Get(result)
        IN  /\ b.south < b.north
            /\ b.west < b.east
            /\ b.north - call.center[2] = call.center[2] - b.south
            /\ b.east - call.center[1] = call.center[1] - b.west

\* C9 (amended): for r > 0 and |lat| < 90 the box contains the given point
\* (south <= lat <= north, west <= lon <= east), and south < north and
\* west < east hold whenever the latitude offset and the longitude offset
\* are at least one unit in the last place of the centre's latitude and
\* longitude.
C9_Expand ==
    (call.fn = "expand" /\ IsSome(result)) =>
        LET b   == Get(result)
            lon == call.center[1]
            lat == call.center[2]
        IN  /\ b.south <= lat /\ lat <= b.north
            /\ b.west <= lon /\ lon <= b.east
            /\ LatOffset(call.radius_km) >= Ulp(lat) => b.south < b.north
            /\ LngOffset(call.center, call.radius_km) >= Ulp(lon) => b.west < b.east

\* A box around a point with the point strictly inside.
C9_Witness ==
    /\ call.fn = "expand"
    /\ IsSome(result)
    /\ call.radius_km > 0
    /\ Get(result).south < call.center[2] /\ call.center[2] < Get(result).north
    /\ Get(result).west < call.center[1] /\ call.center[1] < Get(result).east

\* --------------------------------------------------- claims: C5, C6, C7
Normalized == call.fn = "normalize" /\ IsSome(result)

\* The features of the elements that do not throw, in element order.
RECURSIVE FeaturesOfSound(_)
FeaturesOfSound(elements) ==
    IF elements = <<>> THEN <<>>
    ELSE NormalizeElement(Head(elements)).features \o FeaturesOfSound(Tail(elements))

\* C5 as stated: normalizing never throws, whatever the elements and their
\* tags; the elements that cannot be read are skipped and all the others
\* are returned.
C5_AsStated ==
    Normalized =>
        /\ ~Get(result).raised
        /\ Get(result).features = FeaturesOfSound(call.elements)

\* C6 as stated: every feature that the normalizer returns has a Polygon
\* geometry whose ring is closed and has at least 4 vertices.
C6_AsStated ==
    Normalized =>
        \A i \in 1..Len(Get(result).features) :
            LET f    == Get(result).features[i]
                ring == f.geometry.coordinates[1]
            IN  /\ f.geometry.type = "Polygon"
                /\ ring[1] = ring[Len(ring)]
                /\ Len(ring) >= 4

\* A way element all of whose vertex records carry lon and lat.
IsSoundWay(elem) ==
    /\ elem.type = "way"
    /\ Has(elem, "geometry") => VerticesComplete(elem.geometry)

\* The rings C7 expects of a list of ways: none for a way of fewer than 3
\* vertices, else the vertices in order, the first one repeated at the end
\* exactly when the first and the last differ.
RECURSIVE C7_ExpectedRings(_)
C7_ExpectedRings(elements) ==
    IF elements = <<>> THEN <<>>
    ELSE LET g == GetOr(Head(elements), "geometry", <<>>)
             v == ToCoords(g)
         IN  (IF Len(g) < 3 THEN <<>>
              ELSE IF v[1] # v[Len(v)] THEN << v \o <<v[1]>> >> ELSE <<v>>)
             \o C7_ExpectedRings(Tail(elements))

\* C7: a way with fewer than 3 vertices yields no feature; a way with at
\* least 3 vertices yields exactly one feature whose ring is the vertex
\* list in order, with the first vertex appended iff first and last differ.
C7_WayRing ==
    (Normalized /\ \A i \in 1..Len(call.elements) : IsSoundWay(call.elements[i])) =>
        /\ ~Get(result).raised
        /\ [i \in 1..Len(Get(result).features) |->
               Get(result).features[i].geometry.coordinates[1]]
           = C7_ExpectedRings(call.elements)

\* The open ring (0,0),(1,0),(1,1),(0,1) has come back closed.
C7_Witness ==
    /\ Normalized
    /\ Len(call.elements) = 1
    /\ IsSoundWay(call.elements[1])
    /\ Has(call.elements[1], "geometry")
    /\ ToCoords(call.elements[1].geometry) = << <<0, 0>>, <<1, 0>>, <<1, 1>>, <<0, 1>> >>
    /\ Len(Get(result).features) = 1
    /\ Get(result).features[1].geometry.coordinates[1]
          = << <<0, 0>>, <<1, 0>>, <<1, 1>>, <<0, 1>>, <<0, 0>> >>

\* ------------------------------------------------------------ claim: C10
\* The height tag holds a number once its unit suffix is stripped.
C10_HeightText(props) == Strip(Remove(Remove(props["height"], <<"m">>), <<"f", "t">>))

C10_HeightIsNumber(props) == Has(props, "height") /\ FloatParses(C10_HeightText(props))

C10_LevelsIsNumber(props) ==
    Has(props, "building:levels") /\ FloatParses(props["building:levels"])

\* The estimate that C10 describes, in height steps.
C10_Expected(props) ==
    IF C10_HeightIsNumber(props)
    THEN IF Contains(Lower(props["height"]), <<"f", "t">>)
         THEN Times(FloatValue(C10_HeightText(props)), (3048 * Metre) \div 10000)
         ELSE Times(FloatValue(C10_HeightText(props)), Metre)
    ELSE IF C10_LevelsIsNumber(props)
    THEN Times(FloatValue(props["building:levels"]), 3 * Metre)
    ELSE 0

\* C10 as stated: the estimate is the number of the height tag (feet turned
\* into metres) when the tag holds a number, otherwise 3.0 times the levels
\* tag when that holds a number, otherwise 0; so a height tag that is
\* missing or not a number with levels "10" gives 30.0, and "30ft" 9.144.
C10_AsStated ==
    (call.fn = "metrics" /\ IsSome(result)) =>
        LET props == call.feature.properties
        IN  /\ Get(result).height = C10_Expected(props)
            /\ (~C10_HeightIsNumber(props) /\ Has(props, "building:levels")
                   /\ props["building:levels"] = <<"1", "0">>)
                  => Get(result).height = 30 * Metre
            /\ (Has(props, "height") /\ props["height"] = <<"3", "0", "f", "t">>)
                  => Get(result).height = 91440

\* ------------------------------------------------ claims: router, fetcher
ResponseKeys ==
    {"intent", "answer", "coordinates", "target", "candidates", "should_fly_to", "zoom_level"}

\* C1: every response agentic_search returns, whatever branch built it,
\* carries the keys intent, answer, coordinates, target, candidates,
\* should_fly_to and zoom_level; an absent value is an explicit None or an
\* empty list.
C1_ResponseKeys ==
    IsSome(response) =>
        ResponseKeys \subseteq DOMAIN Get(response)

\* A question about a target the resolver did not find is answered with
\* every positional value absent.
C1_Witness ==
    /\ IsSome(response)
    /\ Action = "question"
    /\ geocode_calls # <<>>
    /\ IsNone(Get(response).coordinates)
    /\ IsNone(Get(response).target)

FailStatuses == {"client_error", "timeout"}

AllEndpointsFailed ==
    /\ IsSome(fetch)
    /\ Len(F.attempts) = Len(Endpoints)
    /\ \A k \in 1..Len(F.attempts) : F.attempts[k].status \in FailStatuses

\* C2: the fetcher posts to the endpoints in list order; after a transport
\* error or a timeout of one endpoint it is still in its loop with the next
\* endpoint to post to, and when every endpoint has failed it returns the
\* empty list and nothing is raised.
C2_Failover ==
    IsSome(fetch) =>
        /\ \A k \in 1..Len(F.attempts) : F.attempts[k].endpoint = Endpoints[k]
        /\ (/\ F.attempts # <<>>
            /\ LastAttempt.status \in FailStatuses
            /\ Len(F.attempts) < Len(Endpoints))
              => pc = "fetch" /\ ENABLED AttemptStart /\ ~ ENABLED FetchReturn
        /\ (AllEndpointsFailed /\ pc = "fetch") => ENABLED FetchReturn
        /\ (AllEndpointsFailed /\ pc # "fetch")
              => buildings = <<>> /\ raised = "none"

\* Every endpoint failed, the last one by timeout, and the request was
\* answered.
C2_Witness ==
    /\ AllEndpointsFailed
    /\ F.attempts[Len(Endpoints)].status = "timeout"
    /\ pc = "done"
    /\ IsSome(response)

\* The features of the one answered attempt, as the fetcher returns them.
FeaturesOfAttempt(attempt) ==
    LET body == Get(attempt.body)
    IN  IF body = Null THEN <<>>
        ELSE NormalizeElements(GetOr(body, "elements", <<>>)).features

\* C3: the attempts are strictly one after another: an attempt starts only
\* when every earlier one has failed, no endpoint is posted to twice, no
\* attempt follows a success, and the features returned are those of exactly
\* one endpoint's answer.
C3_Sequential ==
    IsSome(fetch) =>
        /\ \A k \in 1..Len(F.attempts) :
              k < Len(F.attempts) => F.attempts[k].status \in FailStatuses
        /\ \A j, k \in 1..Len(F.attempts) :
              F.attempts[j].endpoint = F.attempts[k].endpoint => j = k
        /\ Cardinality({k \in 1..Len(F.attempts) : F.attempts[k].status = "ok"}) <= 1
        /\ (pc \in {"fetched", "done"} /\ raised = "none") =>
              IF LastAttempt.status = "ok"
              THEN buildings = FeaturesOfAttempt(LastAttempt)
              ELSE buildings = <<>>

\* The first endpoint failed, the second answered with buildings, and they
\* were returned.
C3_Witness ==
    /\ IsSome(fetch)
    /\ pc = "done"
    /\ raised = "none"
    /\ Len(F.attempts) = 2
    /\ F.attempts[1].status = "timeout"
    /\ F.attempts[2].status = "ok"
    /\ buildings # <<>>

\* The call of the resolver the handler waited for last ended without a
\* result.
ResolverFailed ==
    /\ geocode_calls # <<>>
    /\ geocode_calls[Len(geocode_calls)].outcome \in {"none", "timeout"}

\* C4: when the resolver fails or every spatial endpoint fails, the request
\* ends in a response, not an exception, and the response is an empty or
\* not-found one with should_fly_to false.
C4_AsStated ==
    (pc = "done" /\ (ResolverFailed \/ AllEndpointsFailed)) =>
        /\ raised = "none"
        /\ IsSome(response)
        /\ Get(response).should_fly_to = FALSE
        /\ IsNone(Get(response).target)
        /\ Get(response).candidates = <<>>

\* ------------------------------------------------- claims: C11, C12, C13
MetricsDone == call.fn = "metrics" /\ IsSome(result)

\* C11 as stated: for every feature and every value of its tags the area
\* and the height that calculate_building_features returns are at least 0.
C11_AsStated ==
    MetricsDone => Get(result).area >= 0 /\ Get(result).height >= 0

\* The shoelace sum of a ring in exact arithmetic, the closing edge from the
\* last vertex to the first included.
RECURSIVE ExactShoelace(_, _)
ExactShoelace(ring, i) ==
    IF i = 0 THEN 0
    ELSE LET j == (i % Len(ring)) + 1
         IN  ExactShoelace(ring, i - 1)
             + ring[i][1] * ring[j][2] - ring[j][1] * ring[i][2]

\* The sum of the magnitudes of all products of the loop over a ring.
RECURSIVE ProductMass(_, _)
ProductMass(ring, i) ==
    IF i = 0 THEN 0
    ELSE LET j == (i % Len(ring)) + 1
         IN  ProductMass(ring, i - 1)
             + Abs(ring[i][1] * ring[j][2]) + Abs(ring[j][1] * ring[i][2])

RingOf(feature) == feature.geometry.coordinates[1]

ClosedBy(ring) == ring \o <<ring[1]>>

AreaOfRing(ring) ==
    FeatureArea([geometry |-> [type |-> "Polygon", coordinates |-> <<ring>>]])

\* C12 as stated: the area is the absolute shoelace sum of the ring (times
\* 111320 squared over 2), it is the same for the open ring and for the ring
\* closed by its first vertex, and the 1 by 1 square has area 111320 squared.
C12_AsStated ==
    MetricsDone =>
        LET ring == RingOf(call.feature)
        IN  /\ Get(result).area = Abs(ExactShoelace(ring, Len(ring)))
            /\ ring[1] # ring[Len(ring)] => AreaOfRing(ClosedBy(ring)) = Get(result).area
            /\ ring = UnitSquare => Get(result).area = 2

\* C12, amended: the area is never negative; when the products of the loop
\* are small enough for every step to be exact, it is the absolute shoelace
\* sum, and the same for the open and the closed ring; otherwise the closed
\* ring adds and takes away the product x0 * y0 once more, and its area
\* differs from that of the open ring by at most the rounding steps of that
\* product and of the sum; the 1 by 1 square has area 111320 squared, open
\* or closed.
C12_Area ==
    MetricsDone =>
        LET ring   == RingOf(call.feature)
            closed == ClosedBy(ring)
            x0y0   == ring[1][1] * ring[1][2]
        IN  /\ Get(result).area >= 0
            /\ ProductMass(closed, Len(closed)) < Pow2(MantBits) =>
                  /\ Get(result).area = Abs(ExactShoelace(ring, Len(ring)))
                  /\ AreaOfRing(closed) = Get(result).area
            /\ ring[1] # ring[Len(ring)] =>
                  Abs(AreaOfRing(closed) - Get(result).area)
                     <= Ulp(x0y0) + Ulp(Get(result).area)
            /\ ring \in {UnitSquare, SubSeq(UnitSquare, 1, 4)} => Get(result).area = 2

\* An open ring whose closed form has another area has been measured.
C12_Witness ==
    /\ MetricsDone
    /\ Len(RingOf(call.feature)) >= 3
    /\ RingOf(call.feature)[1] = <<BigCoordinate, BigCoordinate>>
    /\ AreaOfRing(ClosedBy(RingOf(call.feature))) # Get(result).area
    /\ Get(result).area > 0

RankDone == call.fn = "rank" /\ IsSome(result)

IsPolygon(f) == Has(f, "geometry") /\ Has(f.geometry, "type") /\ f.geometry.type = "Polygon"

\* The key C13 names for sort_by, as a pair <<numerator, denominator>>;
\* the flag tells that the key is a number.
C13_Key(sort_by, f) ==
    LET m == calculate_building_features(f)
    IN  IF sort_by = "height" THEN [number |-> m.height # NaN, num |-> m.height \div 8, den |-> 1]
        ELSE IF sort_by = "underdeveloped"
        THEN [number |-> m.height # NaN, num |-> m.area, den |-> Max(m.height, 3 * Metre) \div 8]
        ELSE [number |-> TRUE, num |-> m.area, den |-> 1]

C13_Above(k1, k2) == k1.number /\ k2.number /\ k1.num * k2.den > k2.num * k1.den

C13_Same(k1, k2) == k1.number /\ k2.number /\ k1.num * k2.den = k2.num * k1.den

Injections(n) == { p \in [1..n -> 1..n] : \A i, j \in 1..n : p[i] = p[j] => i = j }

\* C13 as stated: the ranking holds exactly the polygon features of the
\* input, each once, in non-increasing order of the key that sort_by
\* selects, features of equal key in their input order.
C13_AsStated ==
    RankDone =>
        LET polygons == SelectSeq(call.features, IsPolygon)
            ranked   == Get(result)
            sort_by  == SortByOf(call.building_attributes)
            n        == Len(polygons)
        IN  /\ Len(ranked) = n
            /\ \E p \in Injections(n) :
                  /\ \A i \in 1..n : ranked[i] = polygons[p[i]]
                  /\ \A i, j \in 1..n : i < j =>
                        LET ki == C13_Key(sort_by, ranked[i])
                            kj == C13_Key(sort_by, ranked[j])
                        IN  \/ C13_Above(ki, kj)
                            \/ C13_Same(ki, kj) /\ p[i] < p[j]

\* The same statement for the calls none of whose keys is nan.
C13_NumberKeys ==
    (RankDone /\ \A i \in 1..Len(call.features) :
                    IsPolygon(call.features[i]) =>
                        C13_Key(SortByOf(call.building_attributes), call.features[i]).number)
       => C13_AsStated

\* ------------------------------------------------------------ claim C14
\* A find_building request with sort_by = height and a location is over,
\* and its probe "tallest building <location>" came back with a landmark of
\* type poi or place whose name has one of the tall keywords.
LandmarkResolved ==
    /\ pc = "done"
    /\ IsSome(intent)
    /\ Action = "find_building"
    /\ SortBy = "height"
    /\ GetOr(I, "location_query", <<>>) # <<>>
    /\ IsTallLandmark(landmark)

\* C14: when a find_building request with sort_by = height and a location
\* resolves the probe "tallest building <location>" to a structure-class
\* landmark, the response has action = "navigate", should_fly_to = true and
\* target = null, and the fetcher is never called during the request.
C14_AsStated ==
    LandmarkResolved =>
        /\ IsSome(response)
        /\ Has(Get(response), "action")
        /\ Get(response).action = "navigate"
        /\ Get(response).should_fly_to = TRUE
        /\ Get(response).target = None
        /\ fetch = None

\* ------------------------------------------------------------ claim C15
\* A find_building request whose fetch returned buildings has answered.
FindAnswered ==
    /\ pc = "done"
    /\ IsSome(response)
    /\ IsSome(intent)
    /\ Action = "find_building"
    /\ buildings # <<>>

\* building_attributes.limit, 5 when the intent names none
LimitOf(building_attributes) ==
    IF building_attributes # Null /\ Has(building_attributes, "limit")
    THEN building_attributes.limit
    ELSE 5

Min(a, b) == IF a < b THEN a ELSE b

\* The point lies in the rectangle that bounds the ring.
InsideBounds(point, ring) ==
    /\ \E i \in 1..Len(ring) : ring[i][1] <= point[1]
    /\ \E i \in 1..Len(ring) : ring[i][1] >= point[1]
    /\ \E i \in 1..Len(ring) : ring[i][2] <= point[2]
    /\ \E i \in 1..Len(ring) : ring[i][2] >= point[2]

\* C15: for find_building with a non-empty fetch result the target is the
\* first feature of the ranking, the candidates are the next limit - 1
\* features in rank order (limit 5 by default), the coordinates are the
\* center of the target's ring, should_fly_to is true and zoom_level is 17;
\* with sort_by = area and two polygons of different area the target is the
\* larger one and the candidates hold just the smaller one.
C15_TargetAndCandidates ==
    FindAnswered =>
        LET r      == Get(response)
            ranked == rank_buildings(buildings, BuildingAttributes)
            limit  == LimitOf(BuildingAttributes)
        IN  /\ Len(ranked) = Len(buildings)
            /\ r.target = Some(ranked[1])
            /\ Len(r.candidates) = Min(limit - 1, Len(ranked) - 1)
            /\ \A k \in 1..Len(r.candidates) : r.candidates[k] = ranked[k + 1]
            /\ r.coordinates = Some(get_building_center(ranked[1]))
            /\ InsideBounds(Get(r.coordinates), RingOf(Get(r.target)))
            /\ r.should_fly_to = TRUE
            /\ r.zoom_level = Some(17)
            /\ (SortBy = "area" /\ Len(buildings) = 2 /\ limit >= 2) =>
                   /\ Len(r.candidates) = 1
                   /\ {Get(r.target), r.candidates[1]} = {buildings[1], buildings[2]}
                   /\ FeatureArea(Get(r.target)) >= FeatureArea(r.candidates[1])

\* Seven buildings were fetched and ranked by area with the default limit:
\* the largest is the target and the next four are the candidates.
C15_Witness ==
    /\ FindAnswered
    /\ SortBy = "area"
    /\ Len(buildings) = 7
    /\ LimitOf(BuildingAttributes) = 5
    /\ Get(Get(response).target).id = 26
    /\ Len(Get(response).candidates) = 4

\* ------------------------------------------------------------ claim C16
\* A find_building request is past the choice of its search geography: the
\* fetcher was entered or the request is over, otherwise than by the
\* landmark short-circuit.
GeographyChosen ==
    /\ IsSome(intent)
    /\ Action = "find_building"
    /\ pc \in {"fetch", "fetched", "done"}
    /\ ~(SortBy = "height" /\ GetOr(I, "location_query", <<>>) # <<>> /\ IsTallLandmark(landmark))

\* A location was given and the resolver returned a result for it.
LocationResolved == GetOr(I, "location_query", <<>>) # <<>> /\ IsSome(location)

HasViewport == IsSome(Get(request).current_bounds)

\* The box the fetcher queries when it is handed bbox.
QueriedBox(bbox) == ClampBBox(bbox)

\* C16 as stated: find_building searches the box around the resolved
\* location when a location is given and the resolver succeeds; otherwise
\* the current viewport; and with neither it returns the response that asks
\* for a location or map area, should_fly_to false, the fetcher not called.
C16_AsStated ==
    GeographyChosen =>
        IF LocationResolved
        THEN /\ IsSome(fetch)
             /\ F.bbox = QueriedBox(expand_bbox_from_center(
                             <<Get(location).lon, Get(location).lat>>,
                             RadiusOr(IF SortBy = "height" THEN 20000 ELSE 10000)))
        ELSE IF HasViewport
        THEN /\ IsSome(fetch)
             /\ F.bbox = QueriedBox(Get(Get(request).current_bounds))
        ELSE /\ pc = "done"
             /\ fetch = None
             /\ IsSome(response)
             /\ Get(response).answer =
                    <<"I need a location or visible map area to search buildings.">>
             /\ Get(response).should_fly_to = FALSE

\* ------------------------------------------------------------ claim C17
AreaRequest == IsSome(intent) /\ Action = "search_area"

\* The listed buildings, target first.
Listed(r) == IF IsSome(r.target) THEN <<Get(r.target)>> \o r.candidates ELSE r.candidates

\* C17: a search_area request with a viewport ranks what it fetched by area
\* only: the target is the first of that ranking and the candidates are the
\* next 5 in rank order, so no building left out is larger than a listed
\* one; should_fly_to is false in every search_area response; and without
\* a viewport the response is the clarifying prompt, neither the resolver
\* nor the fetcher having been called.
C17_SearchArea ==
    AreaRequest =>
        /\ geocode_calls = <<>>
        /\ (pc = "done" /\ IsSome(response)) => Get(response).should_fly_to = FALSE
        /\ ~HasViewport =>
              /\ fetch = None
              /\ pc = "done" =>
                    /\ IsSome(response)
                    /\ Get(response).answer = <<"I need a visible map area to explore buildings.">>
                    /\ Get(response).target = None
                    /\ Get(response).candidates = <<>>
        /\ (HasViewport /\ pc = "done" /\ IsSome(response) /\ buildings # <<>>) =>
              LET r      == Get(response)
                  ranked == rank_buildings(buildings, [sort_by |-> "area"])
                  listed == Listed(r)
              IN  /\ r.target = Some(ranked[1])
                  /\ Len(r.candidates) = Min(5, Len(ranked) - 1)
                  /\ \A k \in 1..Len(r.candidates) : r.candidates[k] = ranked[k + 1]
                  /\ \A k \in 1..(Len(listed) - 1) :
                        FeatureArea(listed[k]) >= FeatureArea(listed[k + 1])
                  /\ \A k \in 1..Len(buildings) :
                        \/ \E j \in 1..Len(listed) : listed[j] = buildings[k]
                        \/ FeatureArea(buildings[k]) <= FeatureArea(listed[Len(listed)])

\* The intent asked for the tallest two, seven buildings were fetched in
\* the viewport: the largest is the target, the next five are candidates.
C17_Witness ==
    /\ AreaRequest
    /\ pc = "done"
    /\ IsSome(response)
    /\ HasViewport
    /\ SortBy = "height"
    /\ Len(buildings) = 7
    /\ Get(Get(response).target).id = 26
    /\ Len(Get(response).candidates) = 5
    /\ Get(response).candidates[5].id = 23
    /\ Get(response).should_fly_to = FALSE

\* ------------------------------------------------------------ claim C18
\* C18: when every endpoint has failed during a search_area request that
\* has a viewport, the request ends in the response with the answer "No
\* buildings found in this area.", target null, no candidates and
\* should_fly_to false.
C18_AllEndpointsFail ==
    (AreaRequest /\ HasViewport /\ AllEndpointsFailed /\ pc = "done") =>
        /\ raised = "none"
        /\ IsSome(response)
        /\ Get(response).answer = <<"No buildings found in this area.">>
        /\ Get(response).target = None
        /\ Get(response).candidates = <<>>
        /\ Get(response).should_fly_to = FALSE

\* A search_area request in a viewport whose three endpoints failed, by
\* transport error, timeout and transport error, and which was answered.
C18_Witness ==
    /\ AreaRequest
    /\ HasViewport
    /\ AllEndpointsFailed
    /\ F.attempts[1].status = "client_error"
    /\ F.attempts[2].status = "timeout"
    /\ F.attempts[3].status = "client_error"
    /\ pc = "done"
    /\ IsSome(response)

\* ------------------------------------------------------------ claim C19
DeleteRequest == IsSome(intent) /\ Action = "delete_building"

\* C19: a delete_building request never enters the fetcher, whichever
\* branch it takes; and when the intent has no location_query it ends in
\* the response that asks for a location, coordinates null and
\* should_fly_to false, the resolver not called either.
C19_Delete ==
    DeleteRequest =>
        /\ fetch = None
        /\ buildings = <<>>
        /\ pc \notin {"fetch", "fetched"}
        /\ GetOr(I, "location_query", <<>>) = <<>> =>
              /\ geocode_calls = <<>>
              /\ pc \in {"route", "done"}
              /\ pc = "done" =>
                    /\ raised = "none"
                    /\ IsSome(response)
                    /\ Get(response).answer =
                           <<"Select a building to delete or specify a location">>
                    /\ Get(response).coordinates = None
                    /\ Get(response).should_fly_to = FALSE

\* A delete_building intent without the location_query key was answered.
C19_Witness ==
    /\ DeleteRequest
    /\ ~Has(I, "location_query")
    /\ pc = "done"
    /\ IsSome(response)
    /\ Get(response).should_fly_to = FALSE
    /\ geocode_calls = <<>>

\* ------------------------------------------------------------ claim C20
\* The key of the intent that carries the settings of a settings action.
SettingsKey ==
    IF Action = "set_weather" THEN "weather_settings"
    ELSE IF Action = "set_time" THEN "time_settings"
    ELSE "camera_settings"

SettingsRequest ==
    IsSome(intent) /\ Action \in {"set_weather", "set_time", "camera_control"}

\* C20: for set_weather, set_time and camera_control the router calls
\* neither the resolver nor the fetcher, and the request ends in a response
\* that echoes the settings of the intent and has coordinates null, target
\* null, no candidates and should_fly_to false.
C20_AsStated ==
    SettingsRequest =>
        /\ geocode_calls = <<>>
        /\ fetch = None
        /\ pc = "done" =>
              /\ raised = "none"
              /\ IsSome(response)
              /\ Has(I, SettingsKey) => Get(response)[SettingsKey] = I[SettingsKey]
              /\ Get(response).coordinates = None
              /\ Get(response).target = None
              /\ Get(response).candidates = <<>>
              /\ Get(response).should_fly_to = FALSE

\* ------------------------------------------------------------ claim C21
NavigateRequest == IsSome(intent) /\ Action = "navigate"

\* The zoom levels as the claim lists them.
C21_Zoom(location_type) ==
    CASE location_type = "city"                   -> 12
      [] location_type = "town"                   -> 13
      [] location_type = "village"                -> 14
      [] location_type = "neighbourhood"          -> 15
      [] location_type = "building"               -> 17
      [] location_type \in {"landmark", "amenity"} -> 16
      [] location_type = "house"                  -> 18
      [] OTHER                                    -> 15

\* C21 as stated: navigate calls the resolver with location_query, or with
\* the raw query when the intent has no location; when the resolver fails
\* the response has coordinates null and should_fly_to false; when it
\* succeeds the response has should_fly_to true, the resolved coordinates
\* and the zoom level of the location type: city 12, town 13, village 14,
\* neighbourhood 15, building 17, landmark or amenity 16, house 18, anything
\* else 15.
C21_AsStated ==
    (NavigateRequest /\ pc = "done") =>
        LET location_query == GetOr(I, "location_query", <<>>)
            called == geocode_calls[1]
        IN  /\ Len(geocode_calls) = 1
            /\ called.query = (IF location_query # <<>> THEN location_query
                               ELSE Get(request).query)
            /\ fetch = None
            /\ IsSome(response)
            /\ IF called.outcome = "found"
               THEN /\ Get(response).should_fly_to = TRUE
                    /\ Get(response).coordinates =
                           Some(<<Get(location).lon, Get(location).lat>>)
                    /\ Get(response).zoom_level =
                           Some(C21_Zoom(Get(location).location_type))
               ELSE /\ Get(response).should_fly_to = FALSE
                    /\ Get(response).coordinates = None

\* ------------------------------------------------------------ claim C22
\* The intent has no action, or one the router has no branch for.
Unrecognized ==
    /\ IsSome(intent)
    /\ ~Has(I, "action") \/ I.action \notin (RoutedActions \cup {"search_area"})

\* The intent with search_area for its action.
AsSearchArea(i) == [k \in DOMAIN i \cup {"action"} |->
                       IF k = "action" THEN "search_area" ELSE i[k]]

\* What a search_area request answers, from the request and from what the
\* fetcher returned alone; the echo of the intent is left out.
AreaOutcome(req, fetched) ==
    IF IsNone(req.current_bounds)
    THEN [answer        |-> <<"I need a visible map area to explore buildings.">>,
          coordinates   |-> None,
          target        |-> None,
          candidates    |-> <<>>,
          should_fly_to |-> FALSE,
          zoom_level    |-> None]
    ELSE IF fetched = <<>>
    THEN [answer        |-> <<"No buildings found in this area.">>,
          coordinates   |-> req.current_center,
          target        |-> None,
          candidates    |-> <<>>,
          should_fly_to |-> FALSE,
          zoom_level    |-> None]
    ELSE LET ranked == rank_buildings(fetched, [sort_by |-> "area"])
         IN  [answer        |-> <<"Found", ToString(Len(fetched)), "buildings in this area.">>,
              coordinates   |-> Some(get_building_center(ranked[1])),
              target        |-> Some(ranked[1]),
              candidates    |-> SubSeq(ranked, 2, Min(6, Len(ranked))),
              should_fly_to |-> FALSE,
              zoom_level    |-> None]

\* The calls made so far are those of a search_area request: none of the
\* resolver, and of the fetcher the one on the viewport, without towers,
\* made as soon as the router has passed.
AreaCalls ==
    /\ geocode_calls = <<>>
    /\ IsSome(fetch) <=> (HasViewport /\ pc # "route")
    /\ IsSome(fetch) =>
          /\ F.bbox = QueriedBox(Get(Get(request).current_bounds))
          /\ F.include_towers = FALSE

\* The response, apart from the intent it echoes.
Unechoed(r) == [k \in DOMAIN r \ {"intent"} |-> r[k]]

\* C22 as stated: an intent whose action is missing or not recognized makes
\* the same calls and returns the same response as the intent with action
\* search_area does on the same request.
C22_AsStated ==
    (Unrecognized /\ pc = "done" /\ IsSome(response)) =>
        /\ AreaCalls
        /\ Get(response) =
              [intent |-> AsSearchArea(I)] @@ AreaOutcome(Get(request), buildings)

\* C22: the search_area intent and every intent whose action is missing or
\* not recognized make the same calls and return the same response on the
\* same request, the echoed intent apart: the calls and the rest of the
\* response are fixed by the request and by what the endpoints answer, and
\* the response echoes the intent as it was parsed.
C22_SameAsSearchArea ==
    (IsSome(intent) /\ pc # "start" /\ (Unrecognized \/ I = AsSearchArea(I))) =>
        /\ AreaCalls
        /\ pc = "done" =>
              IF IsSome(response)
              THEN /\ Unechoed(Get(response)) = AreaOutcome(Get(request), buildings)
                   /\ Get(response).intent = I
              ELSE raised = "HTTPException 500" /\ IsSome(fetch)

\* An intent without action was answered out of seven fetched buildings.
C22_Witness ==
    /\ Unrecognized
    /\ ~Has(I, "action")
    /\ pc = "done"
    /\ IsSome(response)
    /\ Len(buildings) = 7
    /\ Len(Get(response).candidates) = 5
    /\ Get(response).intent = I

\* ------------------------------------------------------------ claim C23
\* A find_building request with a resolved location has entered the fetcher.
FetchAroundLocation ==
    /\ IsSome(intent)
    /\ Action = "find_building"
    /\ LocationResolved
    /\ IsSome(fetch)

\* search_radius_km of the intent, or the default of the sort: 2 km for
\* height, 1 km otherwise.
C23_Radius ==
    IF Has(I, "search_radius_km") /\ I.search_radius_km # 0 THEN I.search_radius_km
    ELSE IF SortBy = "height" THEN 20000 ELSE 10000

\* The resolved point expanded by the radius: radius / 111 degrees of
\* latitude to the north and to the south, and the longitude offset to the
\* west and to the east.
C23_Expanded ==
    LET lon == Get(location).lon
        lat == Get(location).lat
    IN  [south |-> FSub(lat, FDiv(C23_Radius, 111)),
         north |-> FAdd(lat, FDiv(C23_Radius, 111)),
         west  |-> FSub(lon, LngOffset(<<lon, lat>>, C23_Radius)),
         east  |-> FAdd(lon, LngOffset(<<lon, lat>>, C23_Radius))]

C23_WitnessUnclamped ==
    /\ FetchAroundLocation
    /\ C23_Radius = 5000
    /\ WithinCap(C23_Expanded)
    /\ F.bbox = C23_Expanded

\* ------------------------------------------------------------ claim C24
\* A question about a named target was answered out of fetched buildings.
QuestionAnswered ==
    /\ IsSome(intent)
    /\ Action = "question"
    /\ pc = "done"
    /\ IsSome(response)
    /\ buildings # <<>>

\* The building has a name, and the name holds the target name or the
\* target name holds the name, letter case apart.
HasMatchingName(building, target_name) ==
    /\ Has(building, "properties")
    /\ Has(building.properties, "name")
    /\ \/ Contains(Lower(building.properties.name), Lower(target_name))
       \/ Contains(Lower(target_name), Lower(building.properties.name))

\* C24: when some fetched candidate has a name that matches the target name
\* the response target is the first such candidate in fetch order, and only
\* when no candidate's name matches is it the first candidate.
C24_AsStated ==
    QuestionAnswered =>
        LET target_name == I["question_context"]["target_name"]
            matching    == { k \in 1..Len(buildings) :
                                HasMatchingName(buildings[k], target_name) }
        IN  IF matching # {}
            THEN Get(response).target =
                     Some(buildings[CHOOSE k \in matching : \A j \in matching : k <= j])
            ELSE Get(response).target = Some(buildings[1])

\* ------------------------------------------------------------ claim C25
\* One relation was normalized.
RelationNormalized ==
    /\ Normalized
    /\ Len(call.elements) = 1
    /\ call.elements[1].type = "relation"

\* All the vertex records of the relation carry lon and lat.
C25_Sound ==
    LET members == GetOr(call.elements[1], "members", <<>>)
    IN  \A i \in 1..Len(members) : VerticesComplete(GetOr(members[i], "geometry", <<>>))

C25_Members == GetOr(call.elements[1], "members", <<>>)

C25_Geometry(member) == GetOr(member, "geometry", <<>>)

\* The vertices of the members of role outer, in member order; of the
\* member ways only when ways_only.
RECURSIVE C25_OuterVertices(_, _)
C25_OuterVertices(members, ways_only) ==
    IF members = <<>> THEN <<>>
    ELSE LET m == Head(members)
         IN  (IF /\ GetOr(m, "role", "") = "outer"
                 /\ ways_only => GetOr(m, "type", "") = "way"
              THEN ToCoords(C25_Geometry(m))
              ELSE <<>>)
             \o C25_OuterVertices(Tail(members), ways_only)

\* The rings of the features returned.
C25_Rings ==
    [i \in 1..Len(Get(result).features) |-> Get(result).features[i].geometry.coordinates[1]]

\* The first member among those whose geometry has at least n vertices.
C25_First(n) ==
    LET having == { i \in 1..Len(C25_Members) : Len(C25_Geometry(C25_Members[i])) >= n }
    IN  C25_Members[CHOOSE i \in having : \A j \in having : i <= j]

\* C25 as stated: a relation yields at most one feature; when members of
\* role outer carry geometry the ring is their vertices concatenated in
\* member order and closed; when none does but some member carries geometry
\* the ring is the geometry of the first such member; otherwise there is no
\* feature.
C25_AsStated ==
    (RelationNormalized /\ C25_Sound) =>
        LET outer == C25_OuterVertices(C25_Members, FALSE)
        IN  /\ ~Get(result).raised
            /\ IF outer # <<>>
               THEN C25_Rings = <<CloseRing(outer)>>
               ELSE IF \E i \in 1..Len(C25_Members) : C25_Geometry(C25_Members[i]) # <<>>
               THEN LET g == ToCoords(C25_Geometry(C25_First(1)))
                    IN  C25_Rings \in {<<g>>, <<CloseRing(g)>>}
               ELSE C25_Rings = <<>>

\* C25: a relation yields at most one feature.  When the member ways of
\* role outer carry 3 vertices or more between them, the ring is those
\* vertices concatenated in member order and closed.  Otherwise, when some
\* member of any role has a geometry of 3 vertices or more, the ring is the
\* geometry of the first such member, closed.  Otherwise there is no
\* feature.  A vertex record without lon or lat in an outer member way, or
\* in the member the fallback takes, makes the normalizer raise.
C25_Relation ==
    RelationNormalized =>
        IF \E i \in 1..Len(C25_Members) :
              /\ GetOr(C25_Members[i], "role", "") = "outer"
              /\ GetOr(C25_Members[i], "type", "") = "way"
              /\ ~VerticesComplete(C25_Geometry(C25_Members[i]))
        THEN Get(result).raised
        ELSE IF Len(C25_OuterVertices(C25_Members, TRUE)) >= 3
        THEN /\ ~Get(result).raised
             /\ C25_Rings = <<CloseRing(C25_OuterVertices(C25_Members, TRUE))>>
             /\ Get(result).features[1].id = call.elements[1].id
             /\ Get(result).features[1].properties = call.elements[1].tags
        ELSE IF \E i \in 1..Len(C25_Members) : Len(C25_Geometry(C25_Members[i])) >= 3
        THEN IF VerticesComplete(C25_Geometry(C25_First(3)))
             THEN /\ ~Get(result).raised
                  /\ C25_Rings = <<CloseRing(ToCoords(C25_Geometry(C25_First(3))))>>
                  /\ Get(result).features[1].id = call.elements[1].id
                  /\ Get(result).features[1].properties = call.elements[1].tags
             ELSE Get(result).raised
        ELSE ~Get(result).raised /\ Get(result).features = <<>>

\* Two outer ways of two vertices each became one closed ring of five.
C25_Witness ==
    /\ RelationNormalized
    /\ Len(C25_Members) = 2
    /\ \A i \in 1..2 : /\ C25_Members[i].type = "way"
                       /\ C25_Members[i].role = "outer"
                       /\ Len(C25_Geometry(C25_Members[i])) = 2
    /\ C25_Members[1] # C25_Members[2]
    /\ Len(Get(result).features) = 1
    /\ Len(C25_Rings[1]) = 5

\* ---------------------------------------------------- claims: C26, C27
Parsed == call.fn = "parse" /\ IsSome(result)

\* The lead phrase of a query, as an index of NavigationPhrases (0: none),
\* and the text that trails it.
LeadPhrase(query) == FirstIn(Lower(query), NavigationPhrases, 1)

TrailingText(query) ==
    Strip(AfterFirst(Lower(query), NavigationPhrases[LeadPhrase(query)]))

\* C26: a query that holds a lead phrase ("take me to", "go to",
\* "navigate to", "fly to") is parsed as navigate with location_query the
\* text that trails the phrase when that text holds none of tallest,
\* biggest, underdeveloped, and is not parsed as navigate when it holds one.
C26_AsStated ==
    (Parsed /\ LeadPhrase(call.query) # 0) =>
        IF AnyIn(TrailingText(call.query), BuildingSearchWords)
        THEN Get(result).action # "navigate"
        ELSE /\ Get(result).action = "navigate"
             /\ Get(result).location_query = TrailingText(call.query)

\* The second half of C26 alone: a ranking keyword after the lead phrase
\* keeps the query from being parsed as navigate.
C26_BailsOut ==
    (Parsed /\ LeadPhrase(call.query) # 0
            /\ AnyIn(TrailingText(call.query), BuildingSearchWords)) =>
        Get(result).action # "navigate"

\* A query that none of the weather, time, camera, delete, question and
\* navigation rules took.
ReachedBuildingSearch ==
    /\ Parsed
    /\ Get(result).action \in {"find_building", "search_area"}

SortedBy(key) ==
    /\ Get(result).action = "find_building"
    /\ Get(result).building_attributes.sort_by = key

\* C27 as stated: past the earlier rules, tallest or highest gives
\* find_building by height, biggest, largest or footprint by area,
\* underdeveloped or low-rise by underdeveloped, and a query with none of
\* these keywords is search_area.
C27_AsStated ==
    ReachedBuildingSearch =>
        LET q     == Lower(call.query)
            high  == AnyIn(q, { <<"tall", "est">>, <<"highest">> })
            big   == AnyIn(q, { <<"biggest">>, <<"largest">>, <<"footprint">> })
            under == AnyIn(q, { <<"underdeveloped">>, <<"low-rise">> })
        IN  /\ high => SortedBy("height")
            /\ big => SortedBy("area")
            /\ under => SortedBy("underdeveloped")
            /\ ~(high \/ big \/ under) => Get(result).action = "search_area"

\* C27, amended: the three keyword lists are tried in the order height, area,
\* underdeveloped and the first list of which the query holds a keyword
\* decides; the lists also hold tall and height, area, and short building.
\* Only a query that holds no keyword of the three lists is search_area.
C27_BuildingSearch ==
    ReachedBuildingSearch =>
        LET q     == Lower(call.query)
            high  == AnyIn(q, { <<"tall", "est">>, <<"tall">>, <<"highest">>, <<"height">> })
            big   == AnyIn(q, { <<"biggest">>, <<"largest">>, <<"footprint">>, <<"area">> })
            under == AnyIn(q, { <<"underdeveloped">>, <<"low-rise">>,
                                <<"short", " ", "building">> })
        IN  /\ high => SortedBy("height")
            /\ (~high /\ big) => SortedBy("area")
            /\ (~high /\ ~big /\ under) => SortedBy("underdeveloped")
            /\ ~(high \/ big \/ under) => Get(result).action = "search_area"
            /\ Get(result).location_query = Null
            /\ Get(result).action = "find_building" =>
                   /\ Get(result).building_attributes.limit = 5
                   /\ Get(result).building_attributes.building_type = "any"

\* "underdeveloped area" is ranked by area, "biggest" comes after "tallest"
C27_Witness ==
    /\ Parsed
    /\ call.query = <<"underdeveloped", " ", "area">>
    /\ SortedBy("area")

\* ------------------------------------------------- claims: C28, C29, C30
\* cancel_job has answered "cancelled" with type "3d" for the job.
Cancelled3D(job_id) == [endpoint |-> "cancel", job_id |-> job_id, type |-> "3d"] \in answered

\* C28: a 3D job that start_3d_generation created and for which cancel_job
\* has answered "cancelled" is never again in three_d_jobs, whatever the
\* steps of the 3D task that follow.
C28_AsStated == \A job_id \in JobIds : Cancelled3D(job_id) => ~HasJob(three_d_jobs, job_id)

\* generate_architecture_async has returned the job id, and neither
\* cancel_job nor cleanup_finished_jobs has removed the job since.
Pollable(job_id) ==
    /\ [endpoint |-> "generate-architecture-async", job_id |-> job_id] \in answered
    /\ \A a \in answered : a.job_id = job_id => a.endpoint \notin {"cancel", "cleanup"}

\* C29: whenever get_job_status is asked for a job that
\* generate_architecture_async has returned and that was not cancelled or
\* cleaned up since, it finds the job: it does not answer 404, before the
\* task of the pipeline has started either.
C29_AsStated ==
    [][\A job_id \in JobIds :
          ( /\ Pollable(job_id)
            /\ get_job_status
            /\ reply'.endpoint = "job"
            /\ reply'.job_id = job_id ) => reply'.status_code = 200]_vars

\* What is left of C29 once the task has started: the job is in the store.
C29_AfterStart ==
    \A k \in DOMAIN tasks :
       ( /\ tasks[k].kind = "pipeline"
         /\ tasks[k].pc # "queued"
         /\ Pollable(tasks[k].job_id) ) => HasJob(jobs, tasks[k].job_id)

\* C30: list_active_jobs lists no completed and no failed job, lists the
\* jobs by progress, lowest first, and its total_active is both the sum of
\* its three counts and the number of jobs listed.
C30_Listing ==
    reply.endpoint = "jobs" =>
        /\ \A k \in DOMAIN reply.jobs : reply.jobs[k].status \notin {"completed", "failed"}
        /\ \A k \in DOMAIN reply.jobs :
              \A l \in DOMAIN reply.jobs :
                 k < l => reply.jobs[k].progress <= reply.jobs[l].progress
        /\ reply.total_active = reply.image_jobs + reply.three_d_jobs + reply.pipeline_jobs
        /\ reply.total_active = Len(reply.jobs)
        /\ reply.image_jobs = Len(SelectSeq(reply.jobs, LAMBDA j : j.type = "image"))
        /\ reply.three_d_jobs = Len(SelectSeq(reply.jobs, LAMBDA j : j.type = "3d"))
        /\ reply.pipeline_jobs = Len(SelectSeq(reply.jobs, LAMBDA j : j.type = "pipeline"))

\* an image job at 30 and a 3D job queued after it: the 3D job is listed first
C30_Witness ==
    /\ reply.endpoint = "jobs"
    /\ reply.total_active = 2
    /\ reply.jobs[1].type = "3d"
    /\ reply.jobs[1].progress = 0
    /\ reply.jobs[2].type = "image"
    /\ reply.jobs[2].progress = 30

====
